---------------------------- MODULE Spec2Model ----------------------------
(***************************************************************************)
(* A model of the two-stage safety detection pipeline:                     *)
(*   - the retrying vision-query client (call_moondream_api),              *)
(*   - the keyword classifiers of both stages,                             *)
(*   - the stage-1 scenario analyzer (analyze_frames_for_scenario),        *)
(*   - the local record store (LocalCloudStorage),                         *)
(*   - the validation engine (detect_true_positives),                      *)
(*   - the poll scheduler (EventScheduler),                                *)
(*   - the async analysis jobs of the router (safety_router.py).           *)
(* Each component has its own specification over the module's variables:   *)
(* SpecClient, SpecEdge, SpecStore, SpecSched, SpecAlert, SpecPoll,        *)
(* SpecText, SpecRetrieve, SpecClip and SpecJobs.                          *)
(***************************************************************************)
EXTENDS Integers, Sequences, FiniteSets, TLC

VARIABLES
    \* ---- vision query client: one call of call_moondream_api
    cl_pc,        \* "idle" | "loop" | "done"
    cl_attempt,   \* the loop variable `attempt`
    cl_requests,  \* requests.post calls made by the current call
    cl_log,       \* the endpoint's responses to the current call, in order
    cl_waits,     \* time.sleep calls of the current call (tenths of a second)
    cl_result,    \* what the call returns
    cl_calls,     \* calls started so far
    \* ---- stage 1: one call of analyze_frames_for_scenario
    ed_pc,              \* "idle" | "frames" | "done"
    ed_scenario,        \* the argument `scenario`
    ed_frames,          \* the argument `frames`
    ed_i,               \* frames handled so far (the loop index i)
    ed_frame_results,   \* the list frame_results
    ed_detected_count,  \* the counter detected_count
    ed_queries,         \* calls of call_moondream_api made by the current call
    ed_result,          \* what the call returns
    \* ---- the record store and stage 2: calls of detect_true_positives
    storage,      \* the files of storage_dir, oldest modification time first
    outbox,       \* the records the edge sweeps produced (edge_results.json)
    tp_pc,        \* "idle" | "returned"
    tp_result,    \* what the last call of detect_true_positives returned
    tp_edge,      \* the record it retrieved
    tp_inference, \* per scenario, what the model layer returned to validate_scenario
    tp_queries,   \* the scenarios it sent a query for, in order
    tp_update,    \* what its call of update_validation_status returned
    \* ---- the poll scheduler: one EventScheduler and the `schedule` job list
    is_running,        \* self.is_running
    scheduler_thread,  \* self.scheduler_thread: index into sc_threads, 0 for None
    sc_jobs,           \* schedule's jobs: whether each one is due
    sc_caller,         \* the thread calling start/stop: "idle" | "initial_pull" | "join"
    sc_threads,        \* the threads started on _run_scheduler
    sc_starts,         \* calls of start_scheduler so far
    sc_ticks,          \* intervals that elapsed while is_running was set
    sc_done,           \* executions of pull_events_from_cloud that returned
    \* ---- alerting: one call of process_safety_event, and what generate_alert
    \* and the sweep's body for one camera make of the same detection result
    al_pc,        \* "idle" | "done"
    al_edge,      \* the record detect_true_positives retrieved
    al_result,    \* what detect_true_positives returned
    al_event,     \* what process_safety_event returned
    al_alert,     \* generate_alert(result)
    al_sched,     \* the alerts of _generate_alerts in the sweep's body
    \* ---- one execution of the sweep pull_events_from_cloud over the store
    sw_pc,        \* "idle" | "done"
    sw_faults,    \* the cameras whose processing would fail in this sweep
    sw_outcome,   \* what the sweep did and returned
    \* ---- the classifiers and the confidence scores applied to texts
    tx_pc,        \* "idle" | "classified" | "scored" | "averaged"
    tx_text,      \* the text classified, or the model's answer scored
    tx_kind,      \* how tx_variant was made from tx_text
    tx_variant,   \* a second text, made from tx_text
    tx_verdict,   \* the verdicts of both classifiers for both texts
    tx_edge_response,  \* the stage-1 narrative handed to validate_scenario
    tx_validation,     \* what validate_scenario returned
    tx_results,        \* a dictionary validation_results
    tx_overall,        \* _calculate_overall_confidence(tx_results)
    \* ---- one call of retrieve_edge_results on the store
    rt_pc,         \* "idle" | "retrieved"
    rt_camera_id,  \* the argument camera_id
    rt_timestamp,  \* the argument timestamp, NoTimestamp for None
    rt_read_ok,    \* whether listing the directory and reading the file worked
    rt_record,     \* what the call returned, NoRecord for None
    \* ---- one call of run_complete_edge_analysis on a clip
    vd_pc,       \* "idle" | "done"
    vd_clip,     \* the clip at video_path
    vd_result,   \* what process_cctv_video returned
    vd_queries,  \* calls of call_moondream_api made for the clip
    vd_sent,     \* the records handed to send_to_cloud
    \* ---- the async analysis jobs of the router
    safety_jobs  \* the entries of safety_jobs, in the order of their creation

clientVars == <<cl_pc, cl_attempt, cl_requests, cl_log, cl_waits, cl_result, cl_calls>>
edgeVars == <<ed_pc, ed_scenario, ed_frames, ed_i, ed_frame_results, ed_detected_count,
              ed_queries, ed_result>>

storeVars == <<storage, outbox, tp_pc, tp_result, tp_edge, tp_inference, tp_queries,
               tp_update>>

schedVars == <<is_running, scheduler_thread, sc_jobs, sc_caller, sc_threads, sc_starts,
               sc_ticks, sc_done>>

alertVars == <<al_pc, al_edge, al_result, al_event, al_alert, al_sched>>

sweepVars == <<sw_pc, sw_faults, sw_outcome>>

textVars == <<tx_pc, tx_text, tx_kind, tx_variant, tx_verdict, tx_edge_response,
              tx_validation, tx_results, tx_overall>>

retrieveVars == <<rt_pc, rt_camera_id, rt_timestamp, rt_read_ok, rt_record>>

clipVars == <<vd_pc, vd_clip, vd_result, vd_queries, vd_sent>>

jobVars == <<safety_jobs>>

vars == <<clientVars, edgeVars, storeVars, schedVars, alertVars, sweepVars, textVars,
          retrieveVars, clipVars, jobVars>>
notClientVars ==
    <<edgeVars, storeVars, schedVars, alertVars, sweepVars, textVars,
      retrieveVars, clipVars, jobVars>>
notEdgeVars ==
    <<clientVars, storeVars, schedVars, alertVars, sweepVars, textVars,
      retrieveVars, clipVars, jobVars>>
notStoreVars ==
    <<clientVars, edgeVars, schedVars, alertVars, sweepVars, textVars,
      retrieveVars, clipVars, jobVars>>
notSchedVars ==
    <<clientVars, edgeVars, storeVars, alertVars, sweepVars, textVars,
      retrieveVars, clipVars, jobVars>>
notAlertVars == <<clientVars, edgeVars, schedVars, sweepVars, textVars, retrieveVars,
                  clipVars, jobVars,
                  storage, tp_pc,
                  tp_result, tp_edge, tp_inference, tp_queries, tp_update>>
notSweepVars ==
    <<clientVars, edgeVars, storeVars, schedVars, alertVars, textVars,
      retrieveVars, clipVars, jobVars>>
notTextVars ==
    <<clientVars, edgeVars, storeVars, schedVars, alertVars, sweepVars, retrieveVars,
      clipVars, jobVars>>
notClipVars ==
    <<clientVars, edgeVars, storeVars, schedVars, alertVars, sweepVars, textVars,
      retrieveVars, jobVars>>
notJobVars ==
    <<clientVars, edgeVars, storeVars, schedVars, alertVars, sweepVars, textVars,
      retrieveVars, clipVars>>
notRetrieveVars == <<clientVars, edgeVars, schedVars, alertVars, sweepVars, textVars, clipVars, jobVars,
                     storage, outbox, tp_pc, tp_result, tp_edge, tp_inference,
                     tp_queries, tp_update>>

-----------------------------------------------------------------------------
(* Text: str.lower(), str.strip() and the `in` substring test of Python.   *)

UpperChars == "ABCDEFGHIJKLMNOPQRSTUVWXYZ"
LowerChars == "abcdefghijklmnopqrstuvwxyz"

CharAt(s, i) == SubSeq(s, i, i)

LowerChar(c) ==
    IF \E i \in 1..Len(UpperChars) : CharAt(UpperChars, i) = c
    THEN CharAt(LowerChars, CHOOSE i \in 1..Len(UpperChars) : CharAt(UpperChars, i) = c)
    ELSE c

RECURSIVE Lower(_)
Lower(s) ==
    IF Len(s) = 0 THEN ""
    ELSE LowerChar(CharAt(s, 1)) \o Lower(SubSeq(s, 2, Len(s)))

IsSpace(c) == c \in {" ", "\t", "\n", "\r"}

RECURSIVE LStrip(_)
LStrip(s) ==
    IF Len(s) > 0 /\ IsSpace(CharAt(s, 1)) THEN LStrip(SubSeq(s, 2, Len(s))) ELSE s

RECURSIVE RStrip(_)
RStrip(s) ==
    IF Len(s) > 0 /\ IsSpace(CharAt(s, Len(s))) THEN RStrip(SubSeq(s, 1, Len(s) - 1)) ELSE s

Strip(s) == RStrip(LStrip(s))

\* Python's `sub in s`
Contains(s, sub) ==
    \E i \in 1..(Len(s) - Len(sub) + 1) : SubSeq(s, i, i + Len(sub) - 1) = sub

\* str.replace(old, new) for a one-character old
RECURSIVE Replace(_, _, _)
Replace(s, old, new) ==
    IF Len(s) = 0 THEN ""
    ELSE (IF CharAt(s, 1) = old THEN new ELSE CharAt(s, 1))
             \o Replace(SubSeq(s, 2, Len(s)), old, new)

\* sep.join(parts)
RECURSIVE Join(_, _)
Join(parts, sep) ==
    IF Len(parts) = 0 THEN ""
    ELSE IF Len(parts) = 1 THEN parts[1]
    ELSE (parts[1] \o sep) \o Join(Tail(parts), sep)

\* str(n) for a natural number
RECURSIVE NumStr(_)
NumStr(n) ==
    IF n < 10 THEN CharAt("0123456789", n + 1)
    ELSE NumStr(n \div 10) \o CharAt("0123456789", (n % 10) + 1)

\* sum(1 for indicator in indicators if indicator in text)
CountIn(indicators, text) ==
    Cardinality({i \in 1..Len(indicators) : Contains(text, indicators[i])})

-----------------------------------------------------------------------------
(* The vision query client.                                                *)

max_retries == 3

\* Calls of call_moondream_api followed in one behaviour.
MaxCalls == 3

\* The answers the endpoint may give in a 200 response.
Answers ==
    {"yes", "no", "Yes, smoke detected", "no smoke visible", "", "I see smoke",
     "smoke detected"}

\* What one requests.post can end in: a 200 with an answer, a 429, or a
\* RequestException (no connection, a timeout, raise_for_status on 4xx/5xx).
Responses ==
    [kind : {"ok"}, answer : Answers]
        \cup {[kind |-> "rate", answer |-> ""], [kind |-> "fail", answer |-> ""]}

ApiAnswer(text) == [error |-> FALSE, text |-> text]
ApiError(msg)   == [error |-> TRUE, text |-> msg]
NoResult        == [error |-> TRUE, text |-> "<none>"]

RateLimitError == ApiError("Rate limit hit")
TransportError == ApiError("RequestException")

\* Mutant: a fixed delay of two seconds before every retry.
RetryDelay_NoBackoff(attempt) == 20

\* delay = 2.0 * (1.5 ** attempt), in tenths of a second (attempt in 1..2)
RetryDelay(attempt) == IF attempt = 1 THEN 30 ELSE IF attempt = 2 THEN 45 ELSE 20
ExceptSleep == 20

\* The sleeps before the request of the given attempt.
WaitsBefore(attempt) == IF attempt > 0 THEN <<RetryDelay(attempt)>> ELSE <<>>

\* Mutant: the last attempt is taken to be attempt max_retries.
AttemptReturns_OneMoreRetry(attempt, resp) ==
    \/ resp.kind = "rate"
    \/ resp.kind = "ok"
    \/ resp.kind = "fail" /\ ~(attempt < max_retries)

\* Mutant: no check of status 429, which raise_for_status then raises on.
AttemptReturns_RetryOn429(attempt, resp) ==
    \/ resp.kind = "ok"
    \/ resp.kind \in {"fail", "rate"} /\ ~(attempt < max_retries - 1)

\* Whether the attempt's response ends the call.
AttemptReturns(attempt, resp) ==
    \/ resp.kind = "rate"
    \/ resp.kind = "ok"
    \/ resp.kind = "fail" /\ ~(attempt < max_retries - 1)

\* The value returned by an attempt that ends the call.
AttemptResult(attempt, resp) ==
    IF resp.kind = "rate" THEN RateLimitError
    ELSE IF resp.kind = "ok" THEN ApiAnswer(resp.answer)
    ELSE TransportError

ClientCall ==
    /\ cl_pc = "idle"
    /\ cl_calls < MaxCalls
    /\ cl_pc' = "loop"
    /\ cl_attempt' = 0
    /\ cl_requests' = 0
    /\ cl_log' = <<>>
    /\ cl_waits' = <<>>
    /\ cl_result' = NoResult
    /\ cl_calls' = cl_calls + 1
    /\ UNCHANGED notClientVars

\* One iteration of `for attempt in range(max_retries)`.
ClientAttempt ==
    /\ cl_pc = "loop"
    /\ cl_attempt < max_retries
    /\ \E resp \in Responses :
        /\ cl_requests' = cl_requests + 1
        /\ cl_log' = Append(cl_log, resp)
        /\ IF AttemptReturns(cl_attempt, resp)
           THEN /\ cl_pc' = "done"
                /\ cl_result' = AttemptResult(cl_attempt, resp)
                /\ cl_waits' = cl_waits \o WaitsBefore(cl_attempt)
                /\ cl_attempt' = cl_attempt
           ELSE /\ cl_pc' = "loop"
                /\ cl_result' = cl_result
                /\ cl_waits' = (cl_waits \o WaitsBefore(cl_attempt)) \o <<ExceptSleep>>
                /\ cl_attempt' = cl_attempt + 1
    /\ UNCHANGED cl_calls
    /\ UNCHANGED notClientVars

\* The caller takes the returned value.
ClientReturn ==
    /\ cl_pc = "done"
    /\ cl_pc' = "idle"
    /\ UNCHANGED <<cl_attempt, cl_requests, cl_log, cl_waits, cl_result, cl_calls>>
    /\ UNCHANGED notClientVars

InitClient ==
    /\ cl_pc = "idle"
    /\ cl_attempt = 0
    /\ cl_requests = 0
    /\ cl_log = <<>>
    /\ cl_waits = <<>>
    /\ cl_result = NoResult
    /\ cl_calls = 0

\* call_moondream_api as a function of the responses the endpoint would give
\* to the first, second and third request.
RECURSIVE ApiLoop(_, _)
ApiLoop(attempt, resps) ==
    IF AttemptReturns(attempt, resps[attempt + 1])
    THEN AttemptResult(attempt, resps[attempt + 1])
    ELSE ApiLoop(attempt + 1, resps)

call_moondream_api(resps) == ApiLoop(0, resps)

\* Every value call_moondream_api can return.
ClientResults == {call_moondream_api(r) : r \in [1..max_retries -> Responses]}

-----------------------------------------------------------------------------
(* Stage 1: the scenario analyzer of the edge detector.                    *)

scenarios ==
    <<"smoke_detection", "fire_detection", "fall_detection", "debris_detection",
      "missing_fire_extinguisher", "unattended_object">>

\* Frames given to one call of analyze_frames_for_scenario.
MaxFrames == 3

\* A frame is an image that encode_image turns into base64 ("img") or one
\* whose JPEG encoding raises, so that encode_image returns None ("bad").
Frames == {"img", "bad"}
FrameLists == UNION {[1..n -> Frames] : n \in 0..MaxFrames}

positive_indicators ==
    <<"yes", "detected", "visible", "present", "found", "smoke", "fire",
      "fallen", "debris", "missing", "unattended", "i see", "there is">>

negative_indicators ==
    <<"no", "not detected", "not visible", "not present", "not found",
      "absent", "clear", "nothing", "no smoke", "no fire">>

\* Mutant: a tie counts as a detection.
parse_detection_TieDetects(response) ==
    LET response_lower == Strip(Lower(response))
        positive_count == CountIn(positive_indicators, response_lower)
        negative_count == CountIn(negative_indicators, response_lower)
    IN  positive_count >= negative_count

\* Mutant: the text is not lower-cased.
parse_detection_NoLower(response) ==
    LET response_lower == Strip(response)
        positive_count == CountIn(positive_indicators, response_lower)
        negative_count == CountIn(negative_indicators, response_lower)
    IN  positive_count > negative_count

parse_detection(response) ==
    LET response_lower == Strip(Lower(response))
        positive_count == CountIn(positive_indicators, response_lower)
        negative_count == CountIn(negative_indicators, response_lower)
    IN  positive_count > negative_count

FailedFrame(i, error) ==
    [frame_number |-> i + 1, success |-> FALSE, response |-> "", detected |-> FALSE,
     error |-> error]

\* The entry appended to frame_results for frame i (0-based), given what
\* call_moondream_api returns for it.
FrameEntry(i, frame, api_result) ==
    IF frame = "bad" THEN FailedFrame(i, "Failed to encode frame")
    ELSE IF api_result.error THEN FailedFrame(i, api_result.text)
    ELSE LET response == Strip(api_result.text)
         IN  [frame_number |-> i + 1, success |-> TRUE, response |-> response,
              detected |-> parse_detection(response), error |-> ""]

\* Mutant: no `continue` after a failed encoding.
FrameQueried_Always(frame) == TRUE

\* Whether the frame is sent to the model.
FrameQueried(frame) == frame # "bad"

IsSuccess(r) == r.success
IsDetection(r) == r.success /\ r.detected
ResponsesOf(entries) == [k \in 1..Len(entries) |-> entries[k].response]

generate_overall_response(frame_results, scenario) ==
    LET successful_responses == ResponsesOf(SelectSeq(frame_results, IsSuccess))
        detections == ResponsesOf(SelectSeq(frame_results, IsDetection))
        head == "Analysis of " \o NumStr(Len(successful_responses)) \o " frames indicates "
        name == Replace(scenario, "_", " ")
    IN  IF Len(successful_responses) = 0 THEN "No analysis available for " \o scenario
        ELSE IF Len(successful_responses) = 1 THEN successful_responses[1]
        ELSE IF Len(detections) > 0
             THEN head \o name \o " detection. Details: " \o Join(detections, "; ")
             ELSE head \o "no " \o name \o " detection. Details: "
                      \o Join(successful_responses, "; ")

\* Mutant: a majority vote over the frames.
overall_detected_Majority(detected_count, total_frames) ==
    2 * detected_count > total_frames

overall_detected(detected_count, total_frames) == detected_count > 0

\* The dictionary analyze_frames_for_scenario returns.
ScenarioResult(scenario, frames, frame_results, detected_count) ==
    [scenario |-> scenario,
     detected |-> overall_detected(detected_count, Len(frames)),
     response |-> generate_overall_response(frame_results, scenario),
     frame_results |-> frame_results,
     detected_frames |-> detected_count,
     total_frames |-> Len(frames)]

NoScenarioResult ==
    [scenario |-> "", detected |-> FALSE, response |-> "", frame_results |-> <<>>,
     detected_frames |-> 0, total_frames |-> 0]

EdgeAnalyze ==
    /\ ed_pc = "idle"
    /\ \E k \in 1..Len(scenarios), frames \in FrameLists :
        /\ ed_scenario' = scenarios[k]
        /\ ed_frames' = frames
    /\ ed_pc' = "frames"
    /\ ed_i' = 0
    /\ ed_frame_results' = <<>>
    /\ ed_detected_count' = 0
    /\ ed_queries' = 0
    /\ ed_result' = NoScenarioResult
    /\ UNCHANGED notEdgeVars

\* One iteration of `for i, frame in enumerate(frames)`.
EdgeFrame ==
    /\ ed_pc = "frames"
    /\ ed_i < Len(ed_frames)
    /\ LET frame == ed_frames[ed_i + 1] IN
        \E api_result \in (IF FrameQueried(frame) THEN ClientResults ELSE {NoResult}) :
            LET entry == FrameEntry(ed_i, frame, api_result)
            IN  /\ ed_frame_results' = Append(ed_frame_results, entry)
                /\ ed_detected_count' =
                       IF entry.success /\ entry.detected
                       THEN ed_detected_count + 1 ELSE ed_detected_count
                /\ ed_queries' =
                       IF FrameQueried(frame) THEN ed_queries + 1 ELSE ed_queries
    /\ ed_i' = ed_i + 1
    /\ UNCHANGED <<ed_pc, ed_scenario, ed_frames, ed_result>>
    /\ UNCHANGED notEdgeVars

\* After the loop: the overall verdict and the narrative.
EdgeFinish ==
    /\ ed_pc = "frames"
    /\ ed_i = Len(ed_frames)
    /\ ed_pc' = "done"
    /\ ed_result' = ScenarioResult(ed_scenario, ed_frames, ed_frame_results,
                                   ed_detected_count)
    /\ UNCHANGED <<ed_scenario, ed_frames, ed_i, ed_frame_results, ed_detected_count,
                   ed_queries>>
    /\ UNCHANGED notEdgeVars

\* The caller goes on.
EdgeReturn ==
    /\ ed_pc = "done"
    /\ ed_pc' = "idle"
    /\ ed_scenario' = ""
    /\ ed_frames' = <<>>
    /\ ed_i' = 0
    /\ ed_frame_results' = <<>>
    /\ ed_detected_count' = 0
    /\ ed_queries' = 0
    /\ ed_result' = NoScenarioResult
    /\ UNCHANGED notEdgeVars

InitEdge ==
    /\ ed_pc = "idle"
    /\ ed_scenario = ""
    /\ ed_frames = <<>>
    /\ ed_i = 0
    /\ ed_frame_results = <<>>
    /\ ed_detected_count = 0
    /\ ed_queries = 0
    /\ ed_result = NoScenarioResult

-----------------------------------------------------------------------------
(* Stage 1: the edge sweep (process_cctv_video) as a function of the       *)
(* frames extracted and of what call_moondream_api returns for each frame  *)
(* of each scenario.                                                       *)

ToSet(seq) == {seq[k] : k \in 1..Len(seq)}

\* The frames counted by `if is_detected: detected_count += 1`.
PositiveFrames(frame_results) ==
    {k \in 1..Len(frame_results) : frame_results[k].success /\ frame_results[k].detected}

\* analyze_frames_for_scenario, apis[k] being the model's result for frame k
analyze_frames_for_scenario(frames, apis, scenario) ==
    LET frame_results == [k \in 1..Len(frames) |-> FrameEntry(k - 1, frames[k], apis[k])]
    IN  ScenarioResult(scenario, frames, frame_results,
                       Cardinality(PositiveFrames(frame_results)))

\* Mutant: the comprehension without its `if result["detected"]`.
detected_scenarios_of_NoFilter(scenario_results) == scenarios

\* Mutant: the flagged scenarios, last one first.
detected_scenarios_of_Reversed(scenario_results) ==
    LET Flagged(scenario) == scenario_results[scenario].detected
        flagged == SelectSeq(scenarios, Flagged)
    IN  [k \in 1..Len(flagged) |-> flagged[Len(flagged) + 1 - k]]

\* [scenario for scenario, result in scenario_results.items() if result["detected"]]
detected_scenarios_of(scenario_results) ==
    LET Flagged(scenario) == scenario_results[scenario].detected
    IN  SelectSeq(scenarios, Flagged)

\* Mutant: no test for an empty list of frames.
process_cctv_video_NoEmptyTest(camera_id, timestamp, frames, apis) ==
    LET result(scenario) == analyze_frames_for_scenario(frames, apis[scenario], scenario)
        scenario_results ==
            [scenario \in ToSet(scenarios) |->
                [detected |-> result(scenario).detected,
                 response |-> result(scenario).response,
                 detected_frames |-> result(scenario).detected_frames,
                 total_frames |-> result(scenario).total_frames]]
    IN  [success |-> TRUE, camera_id |-> camera_id, timestamp |-> timestamp,
         detected_scenarios |-> detected_scenarios_of(scenario_results),
         edge_results |-> scenario_results]

\* process_cctv_video for a clip that gave the frames; apis[scenario] are the
\* model's results for the frames.
process_cctv_video(camera_id, timestamp, frames, apis) ==
    IF Len(frames) = 0
    THEN [success |-> FALSE, camera_id |-> camera_id, timestamp |-> "",
          detected_scenarios |-> <<>>, edge_results |-> [x \in {} |-> FALSE]]
    ELSE LET result(scenario) == analyze_frames_for_scenario(frames, apis[scenario], scenario)
             scenario_results ==
                 [scenario \in ToSet(scenarios) |->
                     [detected |-> result(scenario).detected,
                      response |-> result(scenario).response,
                      detected_frames |-> result(scenario).detected_frames,
                      total_frames |-> result(scenario).total_frames]]
         IN  [success |-> TRUE, camera_id |-> camera_id, timestamp |-> timestamp,
              detected_scenarios |-> detected_scenarios_of(scenario_results),
              edge_results |-> scenario_results]

-----------------------------------------------------------------------------
(* The local record store (LocalCloudStorage).                             *)

Cameras == {"CAMERA_1", "CAMERA_10"}
T1 == "2026-11-06T10:00:00.000001"
T2 == "2026-11-06T10:05:00.000002"
Timestamps == {T1, T2}
NoTimestamp == ""

\* The (camera, timestamp) pairs of the records the edge stores.
RecordKeys == {<<"CAMERA_1", T1>>, <<"CAMERA_10", T2>>}

\* The scenarios the model flags in the stored records' clips, and its
\* answers for their one extracted frame; it answers "no" for the others.
FlaggedSets == {{}, {"smoke_detection"}, {"smoke_detection", "fire_detection"}}
FlaggedAnswer == "Yes, smoke detected"
StoreFrames == <<"img">>

SweepApis(flagged) ==
    [scenario \in ToSet(scenarios) |->
        <<ApiAnswer(IF scenario \in flagged THEN FlaggedAnswer ELSE "no")>>]

\* The records the edge sweep hands to store_edge_results.
EdgeRecords ==
    {process_cctv_video(key[1], key[2], StoreFrames, SweepApis(flagged)) :
        key \in RecordKeys, flagged \in FlaggedSets}

EmptyMap == [x \in {} |-> FALSE]
NoRecord == [camera_id |-> "", timestamp |-> "", detected_scenarios |-> <<>>,
             edge_results |-> EmptyMap, validation_results |-> EmptyMap,
             status |-> "missing", keys |-> {}]

\* The keys of the dictionary process_cctv_video returns on success.
EdgeRecordKeys ==
    {"success", "camera_id", "video_path", "timestamp", "processing_time",
     "scenarios_analyzed", "detected_scenarios", "edge_results"}

\* The JSON object written for a record of the edge: it has no status and no
\* validation_results yet; `keys` are the keys of the object.
StoredForm(edge_data) ==
    [camera_id |-> edge_data.camera_id, timestamp |-> edge_data.timestamp,
     detected_scenarios |-> edge_data.detected_scenarios,
     edge_results |-> edge_data.edge_results,
     validation_results |-> EmptyMap, status |-> "none", keys |-> EdgeRecordKeys]

\* timestamp.replace(":", "-").replace(".", "-")
NormalizeTimestamp(timestamp) == Replace(Replace(timestamp, ":", "-"), ".", "-")

FileName(camera_id, timestamp) ==
    ((camera_id \o "_") \o NormalizeTimestamp(timestamp)) \o ".json"

StartsWith(s, prefix) == Len(prefix) <= Len(s) /\ SubSeq(s, 1, Len(prefix)) = prefix
EndsWith(s, suffix) ==
    Len(suffix) <= Len(s) /\ SubSeq(s, Len(s) - Len(suffix) + 1, Len(s)) = suffix

\* open(filepath, 'w') and json.dump: the file becomes the most recent one.
WriteFile(files, name, data) ==
    LET Other(f) == f.name # name
    IN  Append(SelectSeq(files, Other), [name |-> name, data |-> data])

\* The positions in the directory of the files the two lookups match.
MatchingFiles(files, camera_id, timestamp) ==
    {k \in 1..Len(files) :
        /\ StartsWith(files[k].name, camera_id)
        /\ EndsWith(files[k].name, ".json")
        /\ timestamp # NoTimestamp =>
               Contains(files[k].name, NormalizeTimestamp(timestamp))}

\* max(matching_files, key=os.path.getmtime)
LatestFile(files, matching) == CHOOSE k \in matching : \A j \in matching : j <= k

store_edge_results(files, edge_data, io_ok) ==
    IF io_ok
    THEN [files |-> WriteFile(files, FileName(edge_data.camera_id, edge_data.timestamp),
                              StoredForm(edge_data)),
          ok |-> TRUE]
    ELSE [files |-> files, ok |-> FALSE]

retrieve_edge_results(files, camera_id, timestamp, io_ok) ==
    LET matching == MatchingFiles(files, camera_id, timestamp)
    IN  IF ~io_ok \/ matching = {} THEN NoRecord
        ELSE files[LatestFile(files, matching)].data

\* Mutant: the file is replaced by the fields of the update alone, as in the
\* payload CloudStorage sends.
update_validation_status_PayloadOnly(files, camera_id, timestamp, validation_results, first, io_ok) ==
    LET matching == MatchingFiles(files, camera_id, timestamp)
    IN  IF ~io_ok \/ matching = {} THEN [files |-> files, ok |-> FALSE]
        ELSE [files |-> WriteFile(files, files[first].name,
                            [NoRecord EXCEPT
                                !.camera_id = camera_id,
                                !.timestamp = timestamp,
                                !.validation_results = validation_results,
                                !.status = "validation_complete",
                                !.keys = {"camera_id", "timestamp", "validation_results",
                                          "status", "updated_at"}]),
              ok |-> TRUE]

\* `first` is matching_files[0]: the first match in the order of os.listdir.
update_validation_status(files, camera_id, timestamp, validation_results, first, io_ok) ==
    LET matching == MatchingFiles(files, camera_id, timestamp)
    IN  IF ~io_ok \/ matching = {} THEN [files |-> files, ok |-> FALSE]
        ELSE [files |-> WriteFile(files, files[first].name,
                            [files[first].data EXCEPT
                                !.validation_results = validation_results,
                                !.status = "validation_complete",
                                !.keys = @ \cup {"validation_results", "status",
                                                 "updated_at"}]),
              ok |-> TRUE]

-----------------------------------------------------------------------------
(* Stage 2: the validation engine (TruePositiveDetector).                  *)

validation_positive_indicators == <<"yes", "true", "valid", "detected", "present", "found">>
validation_negative_indicators ==
    <<"no", "false", "invalid", "not detected", "absent", "not found">>

\* Mutant: an unclear answer is not valid.
parse_validation_response_TieInvalid(response) ==
    LET response_lower == Strip(Lower(response))
        positive_count == CountIn(validation_positive_indicators, response_lower)
        negative_count == CountIn(validation_negative_indicators, response_lower)
    IN  positive_count > negative_count

parse_validation_response(response) ==
    LET response_lower == Strip(Lower(response))
        positive_count == CountIn(validation_positive_indicators, response_lower)
        negative_count == CountIn(validation_negative_indicators, response_lower)
    IN  IF positive_count > negative_count THEN TRUE
        ELSE IF negative_count > positive_count THEN FALSE
        ELSE TRUE

\* Mutant: the length of the narrative is taken without trimming it.
calculate_confidence_NoTrim(edge_response, validation_response) ==
    LET edge_confidence == IF Len(edge_response) > 10 THEN 80 ELSE 50
        validation_confidence ==
            IF Strip(validation_response) \in {"yes", "no", "true", "false"}
            THEN 90 ELSE 60
    IN  (edge_confidence + validation_confidence) \div 2

\* _calculate_confidence, in hundredths
calculate_confidence(edge_response, validation_response) ==
    LET edge_confidence == IF Len(Strip(edge_response)) > 10 THEN 80 ELSE 50
        validation_confidence ==
            IF Strip(validation_response) \in {"yes", "no", "true", "false"}
            THEN 90 ELSE 60
    IN  (edge_confidence + validation_confidence) \div 2

\* An image handed to detect_true_positives: none, or an upload whose file
\* is read from its current position.
Images == {"none", "upload"}

\* run_inference on the 1x1 placeholder, and run_fast_inference on the upload:
\* `unread` tells whether the upload's file has not been read yet. A file
\* read before gives no bytes, PIL cannot open them, and no query is sent.
InferenceQueries(image, unread) == image = "none" \/ unread

Inference(image, unread, api_result) ==
    IF ~InferenceQueries(image, unread) THEN ApiError("cannot identify image file")
    ELSE IF api_result.error THEN ApiError(api_result.text)
    ELSE ApiAnswer(Strip(api_result.text))

FailedValidation(scenario, error) ==
    [success |-> FALSE, scenario |-> scenario, error |-> error, edge_response |-> "",
     validation_response |-> "", is_valid |-> FALSE, confidence |-> 0]

\* validate_scenario, given what the model layer returned
validate_scenario(scenario, edge_response, validation_result) ==
    IF validation_result.error THEN FailedValidation(scenario, validation_result.text)
    ELSE LET validation_response == Lower(Strip(validation_result.text))
         IN  [success |-> TRUE, scenario |-> scenario, error |-> "",
              edge_response |-> edge_response,
              validation_response |-> validation_response,
              is_valid |-> parse_validation_response(validation_response),
              confidence |-> calculate_confidence(edge_response, validation_response)]

RECURSIVE SumOf(_, _)
SumOf(f, keys) ==
    IF keys = {} THEN 0
    ELSE LET k == CHOOSE x \in keys : TRUE IN f[k] + SumOf(f, keys \ {k})

\* Mutant: the mean is taken over every validation call, failed ones too.
calculate_overall_confidence_AllCalls(validation_results) ==
    IF DOMAIN validation_results = {} THEN [sum |-> 0, count |-> 1]
    ELSE [sum |-> SumOf([s \in DOMAIN validation_results |->
                            validation_results[s].confidence],
                        DOMAIN validation_results),
          count |-> Cardinality(DOMAIN validation_results)]

\* _calculate_overall_confidence: the mean, as sum (in hundredths) over count
calculate_overall_confidence(validation_results) ==
    LET valid_results == {s \in DOMAIN validation_results : validation_results[s].success}
    IN  IF valid_results = {} THEN [sum |-> 0, count |-> 1]
        ELSE [sum |-> SumOf([s \in valid_results |-> validation_results[s].confidence],
                            valid_results),
              count |-> Cardinality(valid_results)]

\* Mutant: a validation that succeeded counts, whatever its verdict.
IsTruePositive_AnySuccess(result) == result.success

\* Mutant: a validation whose call failed counts as confirmed.
IsTruePositive_FailedCounts(result) == ~result.success \/ result.is_valid

\* `if result["success"] and result["is_valid"]`
IsTruePositive(result) == result.success /\ result.is_valid

\* Mutant: no early return for a record without detected scenarios.
ShortCircuits_Never(detected_scenarios) == FALSE

\* `if not detected_scenarios`
ShortCircuits(detected_scenarios) == Len(detected_scenarios) = 0

\* Mutant: the loop runs over every scenario of edge_results.
ScenariosToValidate_All(edge_data) ==
    LET Known(scenario) == scenario \in DOMAIN edge_data.edge_results
    IN  SelectSeq(scenarios, Known)

\* `for scenario in detected_scenarios`
ScenariosToValidate(edge_data) == edge_data.detected_scenarios

NoDecision ==
    [violations_detected |-> FALSE, violation_count |-> 0, violation_types |-> <<>>,
     confidence |-> [sum |-> 0, count |-> 1]]

\* The three shapes of the dictionary detect_true_positives returns; `keys`
\* are the keys the dictionary has.
NotFoundResult(camera_id, timestamp) ==
    [success |-> FALSE, error |-> "No edge results found", camera_id |-> camera_id,
     timestamp |-> timestamp, true_positives |-> <<>>, false_positives |-> <<>>,
     validation_results |-> EmptyMap, edge_results |-> EmptyMap,
     final_decision |-> NoDecision,
     keys |-> {"success", "error", "camera_id", "timestamp"}]

NothingDetectedResult(camera_id, edge_data) ==
    [success |-> TRUE, error |-> "", camera_id |-> camera_id,
     timestamp |-> edge_data.timestamp, true_positives |-> <<>>,
     false_positives |-> <<>>, validation_results |-> EmptyMap,
     edge_results |-> edge_data.edge_results, final_decision |-> NoDecision,
     keys |-> {"success", "camera_id", "timestamp", "true_positives", "message",
               "edge_results"}]

FinalResults(camera_id, edge_data, validation_results) ==
    LET validated == ScenariosToValidate(edge_data)
        IsTP(scenario) == IsTruePositive(validation_results[scenario])
        IsFP(scenario) == ~IsTruePositive(validation_results[scenario])
        true_positives == SelectSeq(validated, IsTP)
        false_positives == SelectSeq(validated, IsFP)
    IN  [success |-> TRUE, error |-> "", camera_id |-> camera_id,
         timestamp |-> edge_data.timestamp, true_positives |-> true_positives,
         false_positives |-> false_positives,
         validation_results |-> validation_results,
         edge_results |-> edge_data.edge_results,
         final_decision |->
             [violations_detected |-> Len(true_positives) > 0,
              violation_count |-> Len(true_positives),
              violation_types |-> true_positives,
              confidence |-> calculate_overall_confidence(validation_results)],
         keys |-> {"success", "camera_id", "timestamp", "video_path", "edge_results",
                   "validation_results", "true_positives", "false_positives",
                   "processing_times", "final_decision"}]

\* The answers the endpoint gives to a confirmation prompt.
ValidationApiResults == {ApiAnswer("yes"), ApiAnswer("no"), TransportError}

\* Position of a scenario in a list without repetitions.
IndexOf(seq, x) == CHOOSE k \in 1..Len(seq) : seq[k] = x

NoResultYet == NotFoundResult("", "")

\* One call of store_edge_results with a record of the edge.
StoreEdgeResults ==
    /\ tp_pc = "idle"
    /\ \E edge_data \in outbox, io_ok \in BOOLEAN :
        storage' = store_edge_results(storage, edge_data, io_ok).files
    /\ UNCHANGED <<outbox, tp_pc, tp_result, tp_edge, tp_inference, tp_queries, tp_update>>
    /\ UNCHANGED notStoreVars

\* detect_true_positives from the loop over the detected scenarios on, for the
\* record retrieved and the model's results for its scenarios.
ValidateAndUpdate(camera_id, image_data, edge_data, apis) ==
    LET validated == ScenariosToValidate(edge_data)
        unread(scenario) == IndexOf(validated, scenario) = 1
        Queried(scenario) == InferenceQueries(image_data, unread(scenario))
    IN  \E inference \in
            {[scenario \in ToSet(validated) |->
                Inference(image_data, unread(scenario), apis[scenario])]} :
        \E validation_results \in
            {[scenario \in ToSet(validated) |->
                validate_scenario(scenario, edge_data.edge_results[scenario].response,
                                  inference[scenario])]} :
        \E matching \in {MatchingFiles(storage, camera_id, edge_data.timestamp)} :
        \E write_ok \in BOOLEAN, first \in matching \cup {0} :
            /\ first = 0 <=> matching = {}
            /\ tp_result' = FinalResults(camera_id, edge_data, validation_results)
            /\ tp_inference' = inference
            /\ tp_queries' = SelectSeq(validated, Queried)
            /\ \E updated \in {update_validation_status(storage, camera_id,
                                   edge_data.timestamp, validation_results,
                                   first, write_ok)} :
                /\ storage' = updated.files
                /\ tp_update' = IF updated.ok THEN "true" ELSE "false"

\* One call of detect_true_positives(camera_id, timestamp, image_data).
DetectTruePositives ==
    /\ tp_pc = "idle"
    /\ tp_pc' = "returned"
    /\ \E camera_id \in Cameras, timestamp \in Timestamps \cup {NoTimestamp},
          read_ok \in BOOLEAN :
        \E edge_data \in {retrieve_edge_results(storage, camera_id, timestamp, read_ok)} :
            /\ tp_edge' = edge_data
            /\ IF edge_data = NoRecord
               THEN /\ tp_result' = NotFoundResult(camera_id, timestamp)
                    /\ tp_inference' = EmptyMap
                    /\ tp_queries' = <<>>
                    /\ tp_update' = "not called"
                    /\ storage' = storage
               ELSE IF ShortCircuits(edge_data.detected_scenarios)
               THEN /\ tp_result' = NothingDetectedResult(camera_id, edge_data)
                    /\ tp_inference' = EmptyMap
                    /\ tp_queries' = <<>>
                    /\ tp_update' = "not called"
                    /\ storage' = storage
               ELSE \E image_data \in Images,
                       apis \in [ToSet(ScenariosToValidate(edge_data)) ->
                                     ValidationApiResults] :
                        ValidateAndUpdate(camera_id, image_data, edge_data, apis)
    /\ UNCHANGED outbox
    /\ UNCHANGED notStoreVars

\* The caller goes on.
DetectReturn ==
    /\ tp_pc = "returned"
    /\ tp_pc' = "idle"
    /\ tp_result' = NoResultYet
    /\ tp_edge' = NoRecord
    /\ tp_inference' = EmptyMap
    /\ tp_queries' = <<>>
    /\ tp_update' = "not called"
    /\ UNCHANGED <<storage, outbox>>
    /\ UNCHANGED notStoreVars

InitStore ==
    /\ storage = <<>>
    /\ outbox = EdgeRecords
    /\ tp_pc = "idle"
    /\ tp_result = NoResultYet
    /\ tp_edge = NoRecord
    /\ tp_inference = EmptyMap
    /\ tp_queries = <<>>
    /\ tp_update = "not called"

-----------------------------------------------------------------------------
(* The poll scheduler (EventScheduler) and the job list of `schedule`.     *)

\* Calls of start_scheduler followed in one behaviour.
MaxStarts == 2

\* Intervals counted while the scheduler is running.
MaxTicks == 2

\* A thread on _run_scheduler is at the loop test ("loop"), inside a job's
\* pull_events_from_cloud ("pull", with the runnable jobs still to run), or
\* has left the loop ("exited").
LoopThread == [pc |-> "loop", todo |-> {}]

\* Neither store class defines list_cameras_with_events: the call raises
\* AttributeError, the handler around the sweep logs it, and the sweep
\* returns without reaching the loop over the cameras.
pull_events_from_cloud == "error logged"

\* The threads that are inside pull_events_from_cloud.
PullingThreads == {t \in 1..Len(sc_threads) : sc_threads[t].pc = "pull"}

ActiveSweeps ==
    Cardinality(PullingThreads) + (IF sc_caller = "initial_pull" THEN 1 ELSE 0)

\* start_scheduler up to the initial pull: the job is added to schedule's
\* list (and is never removed), then the caller enters the sweep.
StartScheduler ==
    /\ sc_caller = "idle"
    /\ sc_starts < MaxStarts
    /\ sc_starts' = sc_starts + 1
    /\ IF is_running
       THEN UNCHANGED <<sc_jobs, sc_caller>>
       ELSE /\ sc_jobs' = Append(sc_jobs, FALSE)
            /\ sc_caller' = "initial_pull"
    /\ UNCHANGED <<is_running, scheduler_thread, sc_threads, sc_ticks, sc_done>>
    /\ UNCHANGED notSchedVars

\* The initial pull returns; start_scheduler sets the flag and starts a thread.
StartThread ==
    /\ sc_caller = "initial_pull"
    /\ pull_events_from_cloud = "error logged"
    /\ is_running' = TRUE
    /\ sc_threads' = Append(sc_threads, LoopThread)
    /\ scheduler_thread' = Len(sc_threads) + 1
    /\ sc_caller' = "idle"
    /\ sc_done' = sc_done + 1
    /\ UNCHANGED <<sc_jobs, sc_starts, sc_ticks>>
    /\ UNCHANGED notSchedVars

\* stop_scheduler up to the join.
StopScheduler ==
    /\ sc_caller = "idle"
    /\ is_running
    /\ is_running' = FALSE
    /\ sc_caller' = IF scheduler_thread # 0 THEN "join" ELSE "idle"
    /\ UNCHANGED <<scheduler_thread, sc_jobs, sc_threads, sc_starts, sc_ticks, sc_done>>
    /\ UNCHANGED notSchedVars

\* scheduler_thread.join(timeout=5) returns: the thread ended, or 5 seconds
\* passed while it was inside a sweep (a thread between sweeps reads
\* is_running within a second). Its outcome is not looked at.
JoinReturns ==
    /\ sc_caller = "join"
    /\ \E timed_out \in BOOLEAN :
        \/ timed_out /\ sc_threads[scheduler_thread].pc = "pull"
        \/ sc_threads[scheduler_thread].pc = "exited"
    /\ sc_caller' = "idle"
    /\ UNCHANGED <<is_running, scheduler_thread, sc_jobs, sc_threads, sc_starts,
                   sc_ticks, sc_done>>
    /\ UNCHANGED notSchedVars

\* The interval of a job elapses: the job is due.
Tick ==
    /\ \E j \in 1..Len(sc_jobs) :
        /\ ~sc_jobs[j]
        /\ sc_jobs' = [sc_jobs EXCEPT ![j] = TRUE]
    /\ is_running => sc_ticks < MaxTicks
    /\ sc_ticks' = IF is_running THEN sc_ticks + 1 ELSE sc_ticks
    /\ UNCHANGED <<is_running, scheduler_thread, sc_caller, sc_threads, sc_starts, sc_done>>
    /\ UNCHANGED notSchedVars

\* `while self.is_running: schedule.run_pending()`: the thread reads the
\* flag; when set, it takes the jobs that are due and enters the first one.
RunScheduler ==
    /\ \E t \in 1..Len(sc_threads) :
        /\ sc_threads[t].pc = "loop"
        /\ LET runnable == {j \in 1..Len(sc_jobs) : sc_jobs[j]}
           IN  /\ ~is_running \/ runnable # {}
               /\ sc_threads' = [sc_threads EXCEPT ![t] =
                    IF ~is_running THEN [pc |-> "exited", todo |-> {}]
                    ELSE [pc |-> "pull", todo |-> runnable]]
    /\ UNCHANGED <<is_running, scheduler_thread, sc_jobs, sc_caller, sc_starts,
                   sc_ticks, sc_done>>
    /\ UNCHANGED notSchedVars

\* The job's pull_events_from_cloud returns and the job is rescheduled; the
\* thread enters the next runnable job, or sleeps and is back at the test.
JobDone ==
    /\ \E t \in 1..Len(sc_threads) :
        /\ sc_threads[t].pc = "pull"
        /\ pull_events_from_cloud = "error logged"
        /\ LET job == CHOOSE j \in sc_threads[t].todo :
                          \A k \in sc_threads[t].todo : j <= k
               rest == sc_threads[t].todo \ {job}
           IN  /\ sc_jobs' = [sc_jobs EXCEPT ![job] = FALSE]
               /\ sc_threads' = [sc_threads EXCEPT ![t] =
                    IF rest = {} THEN LoopThread ELSE [pc |-> "pull", todo |-> rest]]
    /\ sc_done' = sc_done + 1
    /\ UNCHANGED <<is_running, scheduler_thread, sc_caller, sc_starts, sc_ticks>>
    /\ UNCHANGED notSchedVars

InitSched ==
    /\ is_running = FALSE
    /\ scheduler_thread = 0
    /\ sc_jobs = <<>>
    /\ sc_caller = "idle"
    /\ sc_threads = <<>>
    /\ sc_starts = 0
    /\ sc_ticks = 0
    /\ sc_done = 0

-----------------------------------------------------------------------------
(* Alerting: generate_alert, process_safety_event and the sweep's body.    *)

ZeroConfidence == [sum |-> 0, count |-> 1]

\* confidence > threshold, for a mean kept as sum over count (hundredths)
ConfidenceAbove(confidence, threshold) == confidence.sum > threshold * confidence.count

NoAlert(reason) ==
    [alert_generated |-> FALSE, reason |-> reason, priority |-> "", camera_id |-> "",
     timestamp |-> "", violations |-> <<>>, violation_count |-> 0,
     confidence |-> ZeroConfidence]

\* Mutant: the test for an empty true_positives list is missing.
generate_alert_NoEmptyTest(true_positive_results) ==
    IF ~true_positive_results.success THEN NoAlert("Detection failed")
    ELSE [alert_generated |-> TRUE, reason |-> "", priority |-> "high",
          camera_id |-> true_positive_results.camera_id,
          timestamp |-> true_positive_results.timestamp,
          violations |-> true_positive_results.true_positives,
          violation_count |-> Len(true_positive_results.true_positives),
          confidence |-> true_positive_results.final_decision.confidence]

generate_alert(true_positive_results) ==
    LET true_positives == true_positive_results.true_positives
    IN  IF ~true_positive_results.success THEN NoAlert("Detection failed")
        ELSE IF Len(true_positives) = 0 THEN NoAlert("No violations detected")
        ELSE [alert_generated |-> TRUE, reason |-> "",
              priority |-> IF Len(true_positives) > 0 THEN "high" ELSE "low",
              camera_id |-> true_positive_results.camera_id,
              timestamp |-> true_positive_results.timestamp,
              violations |-> true_positives,
              violation_count |-> Len(true_positives),
              confidence |-> true_positive_results.final_decision.confidence]

\* process_safety_event, given what detect_true_positives returned, or let
\* through (a result without keys): the handler turns that into a failure.
process_safety_event(result) ==
    IF "success" \notin result.keys
    THEN [result |-> [result EXCEPT !.error = "Safety event processing failed"],
          keys |-> {"success", "error", "camera_id", "timestamp"},
          alert |-> NoAlert("")]
    ELSE IF ~result.success THEN [result |-> result, keys |-> result.keys, alert |-> NoAlert("")]
    ELSE IF Len(result.true_positives) > 0
    THEN [result |-> result, keys |-> result.keys \cup {"alert", "recommended_actions"},
          alert |-> generate_alert(result)]
    ELSE [result |-> result, keys |-> result.keys, alert |-> NoAlert("")]

\* _generate_alerts: one alert per true positive
generate_alerts(camera_id, true_positives, confidence) ==
    [k \in 1..Len(true_positives) |->
        [camera_id |-> camera_id, scenario |-> true_positives[k],
         confidence |-> confidence,
         priority |-> IF ConfidenceAbove(confidence, 80) THEN "HIGH" ELSE "MEDIUM",
         action_required |-> TRUE]]

\* result.get("confidence", 0)
GetConfidence(result) ==
    IF "confidence" \in result.keys THEN result.final_decision.confidence
    ELSE ZeroConfidence

\* The body of the sweep's loop for one camera, given what
\* detect_true_positives returned: the alerts it generates.
sweep_camera(camera_id, result) ==
    IF result.success /\ Len(result.true_positives) > 0
    THEN generate_alerts(camera_id, result.true_positives, GetConfidence(result))
    ELSE <<>>

\* A record stored with no scenario results at all.
EmptyEdgeRecord ==
    [success |-> TRUE, camera_id |-> "CAMERA_1", timestamp |-> T1,
     detected_scenarios |-> <<>>, edge_results |-> EmptyMap]

\* The results of the model layer for a confirmation prompt, terse or wordy.
AlertApiResults ==
    {ApiAnswer("yes"), ApiAnswer("no"), ApiAnswer("Yes, smoke detected"),
     ApiAnswer("no smoke visible"), TransportError}

\* A stored record that lists a detected scenario without a result for it.
BrokenRecord ==
    [success |-> TRUE, camera_id |-> "CAMERA_1", timestamp |-> T1,
     detected_scenarios |-> <<"smoke_detection">>, edge_results |-> EmptyMap]

\* edge_data["edge_results"][scenario] raises KeyError in the validation loop.
RaisesKeyError(edge_data) ==
    \E scenario \in ToSet(ScenariosToValidate(edge_data)) :
        scenario \notin DOMAIN edge_data.edge_results

\* Mutant: no handler around the body of detect_true_positives: the
\* exception reaches the caller and nothing is returned.
DetectionFailedResult_Reraise(camera_id, timestamp) ==
    [NotFoundResult(camera_id, timestamp) EXCEPT !.error = "KeyError", !.keys = {}]

\* `except Exception as e: return {"success": False, ...}`
DetectionFailedResult(camera_id, timestamp) ==
    [NotFoundResult(camera_id, timestamp) EXCEPT
        !.error = "True positive detection failed"]

\* What detect_true_positives returns for the record retrieved and the
\* model's results (the store's update does not change the returned value).
detect_result(camera_id, timestamp, edge_data, validation_results) ==
    IF edge_data = NoRecord THEN NotFoundResult(camera_id, timestamp)
    ELSE IF ShortCircuits(edge_data.detected_scenarios)
    THEN NothingDetectedResult(camera_id, edge_data)
    ELSE IF RaisesKeyError(edge_data) THEN DetectionFailedResult(camera_id, timestamp)
    ELSE FinalResults(camera_id, edge_data, validation_results)

validation_results_of(edge_data, image_data, apis) ==
    LET validated == ScenariosToValidate(edge_data)
        edge_response(scenario) ==
            IF scenario \in DOMAIN edge_data.edge_results
            THEN edge_data.edge_results[scenario].response ELSE ""
    IN  [scenario \in ToSet(validated) |->
            validate_scenario(scenario, edge_response(scenario),
                Inference(image_data, IndexOf(validated, scenario) = 1, apis[scenario]))]

\* One request to the controller, followed through detect_true_positives.
ProcessSafetyEvent ==
    /\ al_pc = "idle"
    /\ al_pc' = "done"
    /\ \E camera_id \in Cameras, timestamp \in {NoTimestamp, T1}, image_data \in Images,
          edge_data \in {StoredForm(r) : r \in outbox \cup {EmptyEdgeRecord, BrokenRecord}}
                            \cup {NoRecord} :
        \E apis \in [ToSet(ScenariosToValidate(edge_data)) -> AlertApiResults] :
        \E result \in {detect_result(camera_id, timestamp, edge_data,
                           validation_results_of(edge_data, image_data, apis))} :
            /\ edge_data # NoRecord => StartsWith(edge_data.camera_id, camera_id)
            /\ al_edge' = edge_data
            /\ al_result' = result
            /\ al_event' = process_safety_event(result)
            /\ al_alert' = generate_alert(result)
            /\ al_sched' = sweep_camera(camera_id, result)
    /\ UNCHANGED outbox
    /\ UNCHANGED notAlertVars

\* The caller goes on.
AlertReturn ==
    /\ al_pc = "done"
    /\ al_pc' = "idle"
    /\ al_edge' = NoRecord
    /\ al_result' = NoResultYet
    /\ al_event' = process_safety_event(NoResultYet)
    /\ al_alert' = NoAlert("")
    /\ al_sched' = <<>>
    /\ UNCHANGED outbox
    /\ UNCHANGED notAlertVars

InitAlert ==
    /\ al_pc = "idle"
    /\ al_edge = NoRecord
    /\ al_result = NoResultYet
    /\ al_event = process_safety_event(NoResultYet)
    /\ al_alert = NoAlert("")
    /\ al_sched = <<>>

-----------------------------------------------------------------------------
(* The sweep pull_events_from_cloud over the record store.                 *)

\* self.cloud_storage.list_cameras_with_events(): LocalCloudStorage and
\* CloudStorage define no such method, so the attribute lookup raises
\* AttributeError whatever the store holds.
list_cameras_with_events(files) == [raised |-> TRUE, cameras |-> <<>>]

\* The cameras that have a file in the store without the status
\* validation_complete, in the order of Cameras' names.
PendingCameras(files) ==
    {c \in Cameras : \E k \in 1..Len(files) :
        files[k].data.camera_id = c /\ files[k].data.status # "validation_complete"}

\* pull_events_from_cloud: what it returns (always None), what it logged,
\* the cameras it got from the store and those it called
\* detect_true_positives for. `faults` are the cameras whose processing
\* raises or returns a failure: the handler inside the loop goes on with the
\* next camera.
pull_events(files, faults) ==
    LET listed == list_cameras_with_events(files)
    IN  IF listed.raised
        THEN [returned |-> "None", raised |-> FALSE,
              log |-> "Error in scheduled event pull",
              cameras |-> <<>>, visited |-> <<>>, processed |-> 0]
        ELSE IF Len(listed.cameras) = 0
        THEN [returned |-> "None", raised |-> FALSE,
              log |-> "No cameras with recent events found",
              cameras |-> <<>>, visited |-> <<>>, processed |-> 0]
        ELSE LET Fine(c) == c \notin faults
             IN  [returned |-> "None", raised |-> FALSE,
                  log |-> "Scheduled pull completed",
                  cameras |-> listed.cameras, visited |-> listed.cameras,
                  processed |-> Len(SelectSeq(listed.cameras, Fine))]

NoSweep ==
    [returned |-> "", raised |-> FALSE, log |-> "", cameras |-> <<>>, visited |-> <<>>,
     processed |-> 0]

\* One execution of pull_events_from_cloud, by the scheduler's job or by
\* start_scheduler.
PollSweep ==
    /\ sw_pc = "idle"
    /\ sw_pc' = "done"
    /\ \E faults \in SUBSET Cameras :
        /\ sw_faults' = faults
        /\ sw_outcome' = pull_events(storage, faults)
    /\ UNCHANGED notSweepVars

\* The job returns to schedule.run_pending.
PollReturn ==
    /\ sw_pc = "done"
    /\ sw_pc' = "idle"
    /\ sw_faults' = {}
    /\ sw_outcome' = NoSweep
    /\ UNCHANGED notSweepVars

InitSweep ==
    /\ sw_pc = "idle"
    /\ sw_faults = {}
    /\ sw_outcome = NoSweep

-----------------------------------------------------------------------------
(* The classifiers and the confidence scores as functions of texts.        *)

\* The texts classified: answers of the model with no indicator, with more
\* positive, with more negative and with as many indicators of both kinds.
Texts ==
    {"", "ok", "yes", "no", "true", "I see smoke", "smoke detected",
     "no smoke visible", "not found", "invalid", "unclear", "there is a person"}

UpperChar(c) ==
    IF \E i \in 1..Len(LowerChars) : CharAt(LowerChars, i) = c
    THEN CharAt(UpperChars, CHOOSE i \in 1..Len(LowerChars) : CharAt(LowerChars, i) = c)
    ELSE c

RECURSIVE Upper(_)
Upper(s) ==
    IF Len(s) = 0 THEN ""
    ELSE UpperChar(CharAt(s, 1)) \o Upper(SubSeq(s, 2, Len(s)))

\* The ways a second text is made from a text: the same text, its letters in
\* upper case, white space put before and after it, and the blank between
\* its words doubled or turned into a tab.
CaseKinds == {"same", "upper"}
EdgeSpaceKinds == {"padded"}
InnerSpaceKinds == {"doubled", "tabbed"}
VariantKinds == CaseKinds \cup EdgeSpaceKinds \cup InnerSpaceKinds

Variant(text, kind) ==
    CASE kind = "same" -> text
      [] kind = "upper" -> Upper(text)
      [] kind = "padded" -> ("  " \o text) \o " \n"
      [] kind = "doubled" -> Replace(text, " ", "  ")
      [] kind = "tabbed" -> Replace(text, " ", "\t")

\* The indicator counts of both stages for a text, as the classifiers
\* compute them.
IndicatorCounts(response) ==
    LET response_lower == Strip(Lower(response))
    IN  [positive |-> CountIn(positive_indicators, response_lower),
         negative |-> CountIn(negative_indicators, response_lower),
         validation_positive |-> CountIn(validation_positive_indicators, response_lower),
         validation_negative |-> CountIn(validation_negative_indicators, response_lower)]

NoVerdict ==
    [detected |-> FALSE, is_valid |-> FALSE, variant_detected |-> FALSE,
     variant_is_valid |-> FALSE, again_detected |-> FALSE, again_is_valid |-> FALSE,
     counts |-> IndicatorCounts("")]

\* _parse_detection and _parse_validation_response are called for a text, for
\* a second text made from it, and once more for the text.
Classify ==
    /\ tx_pc = "idle"
    /\ tx_pc' = "classified"
    /\ \E text \in Texts, kind \in VariantKinds :
        \E variant \in {Variant(text, kind)} :
            /\ tx_text' = text
            /\ tx_kind' = kind
            /\ tx_variant' = variant
            /\ tx_verdict' =
                   [detected |-> parse_detection(text),
                    is_valid |-> parse_validation_response(text),
                    variant_detected |-> parse_detection(variant),
                    variant_is_valid |-> parse_validation_response(variant),
                    again_detected |-> parse_detection(text),
                    again_is_valid |-> parse_validation_response(text),
                    counts |-> IndicatorCounts(text)]
    /\ UNCHANGED <<tx_edge_response, tx_validation, tx_results, tx_overall>>
    /\ UNCHANGED notTextVars

\* The stage-1 narratives handed to validate_scenario: short, long, and short
\* once trimmed.
EdgeResponses == {"smoke", "Yes, smoke detected", " fire seen  "}

\* validate_scenario for one scenario, a narrative and what the model layer
\* returns: an answer, padded and in either case, or an error.
Score ==
    /\ tx_pc = "idle"
    /\ tx_pc' = "scored"
    /\ \E k \in 1..Len(scenarios), edge_response \in EdgeResponses,
          text \in Texts, kind \in CaseKinds \cup EdgeSpaceKinds, error \in BOOLEAN :
        \E answer \in {Variant(text, kind)} :
            /\ tx_text' = answer
            /\ tx_edge_response' = edge_response
            /\ tx_validation' =
                   validate_scenario(scenarios[k], edge_response,
                       IF error THEN TransportError ELSE ApiAnswer(answer))
    /\ UNCHANGED <<tx_kind, tx_variant, tx_verdict, tx_results, tx_overall>>
    /\ UNCHANGED notTextVars

\* What validate_scenario can return for a scenario: a failure, or a success
\* with each confidence.
ValidationPool(scenario) ==
    {validate_scenario(scenario, "smoke", TransportError),
     validate_scenario(scenario, "smoke", ApiAnswer("not found")),
     validate_scenario(scenario, "smoke", ApiAnswer("yes")),
     validate_scenario(scenario, "Yes, smoke detected", ApiAnswer("unclear")),
     validate_scenario(scenario, "Yes, smoke detected", ApiAnswer("no"))}

\* The scenarios validated in one pass: the first n of the list.
MaxValidated == 3

\* _calculate_overall_confidence for a dictionary validation_results.
Average ==
    /\ tx_pc = "idle"
    /\ tx_pc' = "averaged"
    /\ \E n \in 0..MaxValidated :
        \E validation_results \in
                {f \in [{scenarios[k] : k \in 1..n} ->
                            UNION {ValidationPool(scenarios[k]) : k \in 1..n}] :
                    \A s \in DOMAIN f : f[s].scenario = s} :
            /\ tx_results' = validation_results
            /\ tx_overall' = calculate_overall_confidence(validation_results)
    /\ UNCHANGED <<tx_text, tx_kind, tx_variant, tx_verdict, tx_edge_response,
                   tx_validation>>
    /\ UNCHANGED notTextVars

\* The caller goes on.
TextReturn ==
    /\ tx_pc # "idle"
    /\ tx_pc' = "idle"
    /\ tx_text' = ""
    /\ tx_kind' = "same"
    /\ tx_variant' = ""
    /\ tx_verdict' = NoVerdict
    /\ tx_edge_response' = ""
    /\ tx_validation' = FailedValidation("", "")
    /\ tx_results' = EmptyMap
    /\ tx_overall' = [sum |-> 0, count |-> 1]
    /\ UNCHANGED notTextVars

InitText ==
    /\ tx_pc = "idle"
    /\ tx_text = ""
    /\ tx_kind = "same"
    /\ tx_variant = ""
    /\ tx_verdict = NoVerdict
    /\ tx_edge_response = ""
    /\ tx_validation = FailedValidation("", "")
    /\ tx_results = EmptyMap
    /\ tx_overall = [sum |-> 0, count |-> 1]

-----------------------------------------------------------------------------
(* Lookups in the record store.                                            *)

\* One call of retrieve_edge_results(camera_id, timestamp).
RetrieveEdgeResults ==
    /\ rt_pc = "idle"
    /\ rt_pc' = "retrieved"
    /\ \E camera_id \in Cameras, timestamp \in Timestamps \cup {NoTimestamp},
          read_ok \in BOOLEAN :
        /\ rt_camera_id' = camera_id
        /\ rt_timestamp' = timestamp
        /\ rt_read_ok' = read_ok
        /\ rt_record' = retrieve_edge_results(storage, camera_id, timestamp, read_ok)
    /\ UNCHANGED notRetrieveVars

\* The caller goes on.
RetrieveReturn ==
    /\ rt_pc = "retrieved"
    /\ rt_pc' = "idle"
    /\ rt_camera_id' = ""
    /\ rt_timestamp' = NoTimestamp
    /\ rt_read_ok' = TRUE
    /\ rt_record' = NoRecord
    /\ UNCHANGED notRetrieveVars

InitRetrieve ==
    /\ rt_pc = "idle"
    /\ rt_camera_id = ""
    /\ rt_timestamp = NoTimestamp
    /\ rt_read_ok = TRUE
    /\ rt_record = NoRecord

-----------------------------------------------------------------------------
(* The edge sweep over one clip (run_complete_edge_analysis).              *)

\* A clip: its file is missing, cv2 cannot open it, or it opens and `frames`
\* are those of the frames 3, 4, 5 that cap.read() decoded.
Clips ==
    {[kind |-> "missing", frames |-> <<>>], [kind |-> "unopenable", frames |-> <<>>]}
        \cup [kind : {"readable"}, frames : FrameLists]

\* extract_frames_from_video: the frames, or the exception it raises.
extract_frames_from_video(clip) ==
    IF clip.kind = "missing"
    THEN [raised |-> TRUE, error |-> "Video file not found", frames |-> <<>>]
    ELSE IF clip.kind = "unopenable"
    THEN [raised |-> TRUE, error |-> "Cannot open video file", frames |-> <<>>]
    ELSE [raised |-> FALSE, error |-> "", frames |-> clip.frames]

\* What the model can return for the frames of a clip: for every frame of a
\* flagged scenario the flagged answer and "no" for the others, or a rate
\* limit, or a transport failure that outlasts the retries, for every frame
\* or for the first one only.
ApiModes == {"answers", "rate", "fail", "first fails"}

\* The scenarios a clip shows: those of the stored records, or two that are
\* not neighbours in the list of scenarios.
ClipFlaggedSets == FlaggedSets \cup {{"unattended_object", "fire_detection"}}

ClipApis(frames, flagged, mode) ==
    [scenario \in ToSet(scenarios) |->
        [k \in 1..Len(frames) |->
            IF mode = "rate" THEN RateLimitError
            ELSE IF mode = "fail" \/ (mode = "first fails" /\ k = 1) THEN TransportError
            ELSE ApiAnswer(IF scenario \in flagged THEN FlaggedAnswer ELSE "no")]]

\* The calls of call_moondream_api of the sweep: one per scenario and frame
\* that could be encoded.
SweepQueries(frames) ==
    Len(scenarios) * Cardinality({k \in 1..Len(frames) : FrameQueried(frames[k])})

\* run_complete_edge_analysis: process_cctv_video with its handler for what
\* extract_frames_from_video raises, and send_to_cloud for a successful
\* result only.
run_complete_edge_analysis(clip, camera_id, timestamp, apis) ==
    LET extracted == extract_frames_from_video(clip)
        edge_results ==
            IF extracted.raised
            THEN [success |-> FALSE, camera_id |-> camera_id, timestamp |-> timestamp,
                  detected_scenarios |-> <<>>, edge_results |-> [x \in {} |-> FALSE]]
            ELSE process_cctv_video(camera_id, timestamp, extracted.frames, apis)
    IN  [result |-> edge_results,
         queries |-> IF edge_results.success THEN SweepQueries(extracted.frames) ELSE 0,
         sent |-> IF edge_results.success THEN <<edge_results>> ELSE <<>>]

NoClip == [kind |-> "missing", frames |-> <<>>]
NoEdgeResult ==
    [success |-> FALSE, camera_id |-> "", timestamp |-> "", detected_scenarios |-> <<>>,
     edge_results |-> [x \in {} |-> FALSE]]

\* One call of run_complete_edge_analysis(video_path, camera_id).
ProcessVideo ==
    /\ vd_pc = "idle"
    /\ vd_pc' = "done"
    /\ \E clip \in Clips, camera_id \in Cameras, flagged \in ClipFlaggedSets,
          mode \in ApiModes :
        \E done \in {run_complete_edge_analysis(clip, camera_id, T1,
                         ClipApis(clip.frames, flagged, mode))} :
            /\ vd_clip' = clip
            /\ vd_result' = done.result
            /\ vd_queries' = done.queries
            /\ vd_sent' = done.sent
    /\ UNCHANGED notClipVars

\* The caller goes on.
ClipReturn ==
    /\ vd_pc = "done"
    /\ vd_pc' = "idle"
    /\ vd_clip' = NoClip
    /\ vd_result' = NoEdgeResult
    /\ vd_queries' = 0
    /\ vd_sent' = <<>>
    /\ UNCHANGED notClipVars

InitClip ==
    /\ vd_pc = "idle"
    /\ vd_clip = NoClip
    /\ vd_result = NoEdgeResult
    /\ vd_queries = 0
    /\ vd_sent = <<>>

-----------------------------------------------------------------------------
(* The async analysis jobs of the router (safety_router.py).               *)

\* Jobs submitted in a run.
MaxJobs == 2

\* class JobStatus
PENDING == "pending"
PROCESSING == "processing"
COMPLETED == "completed"
FAILED == "failed"

\* Python's None in a job entry.
None == "None"

\* The dictionaries process_safety_event returns, by their `success`.
SucceededResult == "success: True"
FailedResult == "success: False"

\* What the call of safety_controller.process_safety_event ends in for the
\* job's thread: a result dictionary, with success true or false, or an
\* exception (the prints before the controller's try block can raise).
NoOutcome == [raised |-> FALSE, result |-> None, error |-> None]
Outcomes ==
    {[raised |-> FALSE, result |-> r, error |-> None] : r \in {SucceededResult, FailedResult}}
        \cup {[raised |-> TRUE, result |-> None, error |-> "str(e)"]}

\* The entry analyze_safety_scenario_async creates; `pc` is the position of
\* the job's thread and `outcome` what its call of the controller ended in.
NewJob ==
    [status |-> PENDING, result |-> None, error |-> None, pc |-> "started",
     outcome |-> NoOutcome]

\* Mutant: a result that reports a failure marks the job failed.
EndStatus_ByResult(outcome) ==
    IF outcome.raised THEN FAILED
    ELSE IF outcome.result = FailedResult THEN FAILED
    ELSE COMPLETED

\* The status written after the call: in the try block or in the handler.
EndStatus(outcome) == IF outcome.raised THEN FAILED ELSE COMPLETED

\* analyze_safety_scenario_async: the entry is created and the thread started.
AnalyzeAsync ==
    /\ Len(safety_jobs) < MaxJobs
    /\ safety_jobs' = Append(safety_jobs, NewJob)
    /\ UNCHANGED notJobVars

\* _process_safety_event_async: the status becomes processing.
JobBegin ==
    /\ \E job_id \in 1..Len(safety_jobs) :
        /\ safety_jobs[job_id].pc = "started"
        /\ safety_jobs' = [safety_jobs EXCEPT ![job_id].status = PROCESSING,
                                              ![job_id].pc = "call"]
    /\ UNCHANGED notJobVars

\* The call of process_safety_event returns or raises.
JobCall ==
    /\ \E job_id \in 1..Len(safety_jobs), outcome \in Outcomes :
        /\ safety_jobs[job_id].pc = "call"
        /\ safety_jobs' = [safety_jobs EXCEPT ![job_id].outcome = outcome,
                                              ![job_id].pc = "called"]
    /\ UNCHANGED notJobVars

\* The status and end_time are written.
JobEnd ==
    /\ \E job_id \in 1..Len(safety_jobs) :
        /\ safety_jobs[job_id].pc = "called"
        /\ safety_jobs' =
               [safety_jobs EXCEPT
                   ![job_id].status = EndStatus(safety_jobs[job_id].outcome),
                   ![job_id].pc = "status written"]
    /\ UNCHANGED notJobVars

\* The result, or the error in the handler, is written and the thread ends.
JobStore ==
    /\ \E job_id \in 1..Len(safety_jobs) :
        /\ safety_jobs[job_id].pc = "status written"
        /\ safety_jobs' =
               [safety_jobs EXCEPT
                   ![job_id].result =
                       IF safety_jobs[job_id].outcome.raised THEN @
                       ELSE safety_jobs[job_id].outcome.result,
                   ![job_id].error =
                       IF safety_jobs[job_id].outcome.raised
                       THEN safety_jobs[job_id].outcome.error ELSE @,
                   ![job_id].pc = "ended"]
    /\ UNCHANGED notJobVars

InitJobs == safety_jobs = <<>>

-----------------------------------------------------------------------------
(* Specifications.                                                         *)

Init ==
    InitClient /\ InitEdge /\ InitStore /\ InitSched /\ InitAlert /\ InitSweep
        /\ InitText /\ InitRetrieve /\ InitClip /\ InitJobs

NextClient == ClientCall \/ ClientAttempt \/ ClientReturn

NextEdge == EdgeAnalyze \/ EdgeFrame \/ EdgeFinish \/ EdgeReturn

NextStore == StoreEdgeResults \/ DetectTruePositives \/ DetectReturn

NextSched ==
    StartScheduler \/ StartThread \/ StopScheduler \/ JoinReturns \/ Tick
        \/ RunScheduler \/ JobDone

NextAlert == ProcessSafetyEvent \/ AlertReturn \/ PollSweep \/ PollReturn

NextPoll == StoreEdgeResults \/ PollSweep \/ PollReturn

NextText == Classify \/ Score \/ Average \/ TextReturn

NextRetrieve == StoreEdgeResults \/ RetrieveEdgeResults \/ RetrieveReturn

NextClip == ProcessVideo \/ ClipReturn

NextJobs == AnalyzeAsync \/ JobBegin \/ JobCall \/ JobEnd \/ JobStore

SpecClient == Init /\ [][NextClient]_vars
SpecEdge == Init /\ [][NextEdge]_vars
SpecStore == Init /\ [][NextStore]_vars
SpecSched == Init /\ [][NextSched]_vars
SpecAlert == Init /\ [][NextAlert]_vars
SpecPoll ==
    Init /\ [][NextPoll]_vars /\ WF_vars(PollSweep) /\ WF_vars(PollReturn)
SpecText == Init /\ [][NextText]_vars
SpecRetrieve == Init /\ [][NextRetrieve]_vars
SpecClip == Init /\ [][NextClip]_vars

\* A job's thread, once its call of the controller is over, runs on to the
\* end of _process_safety_event_async.
SpecJobs == Init /\ [][NextJobs]_vars /\ WF_vars(JobEnd) /\ WF_vars(JobStore)

-----------------------------------------------------------------------------
(* Properties of the vision query client (SpecClient).                     *)

AllFailed(log) == \A i \in 1..Len(log) : log[i].kind = "fail"

\* C6: one call of call_moondream_api sends at most 3 requests and ends with
\* a result: the loop never runs out without a return; when the first k-1
\* requests failed and request k succeeded, the call returns that answer
\* after exactly k requests; when all 3 failed it returns an error and no
\* fourth request is sent.
C6_BoundedRetries ==
    /\ cl_requests = Len(cl_log)
    /\ cl_requests <= max_retries
    /\ cl_pc = "loop" => /\ cl_attempt < max_retries
                         /\ cl_requests = cl_attempt
                         /\ AllFailed(cl_log)
    /\ cl_pc = "done" =>
        LET k == Len(cl_log) IN
        /\ k \in 1..max_retries
        /\ cl_result # NoResult
        /\ AllFailed(SubSeq(cl_log, 1, k - 1))
        /\ cl_log[k].kind = "ok" =>
               cl_result = ApiAnswer(cl_log[k].answer) /\ cl_requests = k
        /\ cl_log[k].kind = "fail" =>
               k = max_retries /\ cl_result.error /\ cl_requests = max_retries

\* Two failed requests, then a success on the third.
C6_Witness ==
    /\ cl_pc = "done"
    /\ Len(cl_log) = 3
    /\ cl_log[1].kind = "fail" /\ cl_log[2].kind = "fail"
    /\ cl_log[3] = [kind |-> "ok", answer |-> "yes"]
    /\ cl_result = ApiAnswer("yes")

\* C7: a 429 on any attempt makes the call return the rate-limit error at
\* once: the 429 is the last response of the call, whatever the attempt.
C7_RateLimitNoRetry ==
    \A i \in 1..Len(cl_log) :
        cl_log[i].kind = "rate" =>
            /\ i = Len(cl_log)
            /\ cl_pc \in {"done", "idle"}
            /\ cl_result = RateLimitError
            /\ cl_requests = i

\* A 429 answered to the second request.
C7_Witness ==
    /\ cl_pc = "done"
    /\ Len(cl_log) = 2
    /\ cl_log[1].kind = "fail"
    /\ cl_log[2].kind = "rate"
    /\ cl_requests = 2

-----------------------------------------------------------------------------
(* Properties of the scenario analyzer (SpecEdge).                         *)

\* C10: in every result of analyze_frames_for_scenario,
\* 0 <= detected_frames <= total_frames, detected holds exactly when at least
\* one frame was classified positive (detected_frames > 0), and a result for
\* no frames is not detected.
C10_FrameCounts ==
    ed_pc = "done" =>
        /\ ed_result.total_frames = Len(ed_frames)
        /\ 0 <= ed_result.detected_frames
        /\ ed_result.detected_frames <= ed_result.total_frames
        /\ ed_result.detected_frames = Cardinality(PositiveFrames(ed_result.frame_results))
        /\ ed_result.detected <=> ed_result.detected_frames > 0
        /\ ed_result.total_frames = 0 => ~ed_result.detected

\* One positive frame out of three: detected, though not a majority.
C10_Witness ==
    /\ ed_pc = "done"
    /\ ed_result.total_frames = 3
    /\ ed_result.detected_frames = 1
    /\ ed_result.detected

-----------------------------------------------------------------------------
(* Properties of the validation engine and the record store (SpecStore).   *)

\* The scenarios whose stage-1 result in a record says detected.
DetectedAtEdge(edge_data) ==
    {s \in DOMAIN edge_data.edge_results : edge_data.edge_results[s].detected}

\* detect_true_positives has just returned success for a retrieved record.
ReturnedSuccess == tp_pc = "returned" /\ tp_edge # NoRecord /\ tp_result.success

\* The file of the record (camera_id, timestamp) is marked validated.
IsComplete(files, camera_id, timestamp) ==
    \E k \in 1..Len(files) :
        /\ files[k].name = FileName(camera_id, timestamp)
        /\ files[k].data.status = "validation_complete"

HasValidation(files, camera_id, timestamp) ==
    \E k \in 1..Len(files) :
        /\ files[k].name = FileName(camera_id, timestamp)
        /\ DOMAIN files[k].data.validation_results # {}

\* C1: after detect_true_positives returned success for a record with at
\* least one edge-detected scenario, true_positives and false_positives are
\* disjoint, list no scenario twice, and together are exactly the scenarios
\* whose stage-1 result has detected = true, whatever the model answered.
C1_Partition ==
    (ReturnedSuccess /\ DetectedAtEdge(tp_edge) # {}) =>
        LET tps == tp_result.true_positives
            fps == tp_result.false_positives
        IN  /\ ToSet(tps) \cap ToSet(fps) = {}
            /\ ToSet(tps) \cup ToSet(fps) = DetectedAtEdge(tp_edge)
            /\ Len(tps) + Len(fps) = Cardinality(DetectedAtEdge(tp_edge))

\* Two scenarios flagged at the edge, one confirmed and one whose validation
\* call failed.
C1_Witness ==
    /\ ReturnedSuccess
    /\ DetectedAtEdge(tp_edge) = {"smoke_detection", "fire_detection"}
    /\ tp_result.true_positives = <<"smoke_detection">>
    /\ tp_result.false_positives = <<"fire_detection">>
    /\ tp_inference["fire_detection"].error

\* C2: a validated scenario is in true_positives exactly when its validation
\* call succeeded and the answer was classified is_valid; in every other case,
\* a failed validation call included, it is in false_positives.
C2_TruePositiveIff ==
    ReturnedSuccess =>
        \A s \in DOMAIN tp_result.validation_results :
            LET r == tp_result.validation_results[s]
                in_tp == s \in ToSet(tp_result.true_positives)
                in_fp == s \in ToSet(tp_result.false_positives)
            IN  /\ in_tp <=> (r.success /\ r.is_valid)
                /\ in_fp <=> ~(r.success /\ r.is_valid)
                /\ r.success <=> ~tp_inference[s].error
                /\ r.success =>
                       r.is_valid = parse_validation_response(tp_inference[s].text)
                /\ tp_inference[s].error => in_fp

\* A validation that succeeded with the answer "no" next to one that failed:
\* both are false positives.
C2_Witness ==
    /\ ReturnedSuccess
    /\ tp_result.true_positives = <<>>
    /\ tp_result.false_positives = <<"smoke_detection", "fire_detection">>
    /\ tp_result.validation_results["smoke_detection"].success
    /\ ~tp_result.validation_results["smoke_detection"].is_valid
    /\ ~tp_result.validation_results["fire_detection"].success

\* C4: when detect_true_positives returns success for a record with at least
\* one detected scenario, the file of that record has the status
\* validation_complete and holds the validation results of the call.
C4_CompleteOnReturn ==
    (ReturnedSuccess /\ DetectedAtEdge(tp_edge) # {}) =>
        \E k \in 1..Len(storage) :
            /\ storage[k].name = FileName(tp_edge.camera_id, tp_edge.timestamp)
            /\ storage[k].data.status = "validation_complete"
            /\ storage[k].data.validation_results = tp_result.validation_results

\* C5: a stored record that reached validation_complete stays so, and keeps
\* validation results, over every step of the store and the engine.
C5_StatusMonotonic ==
    [][\A key \in RecordKeys :
        /\ IsComplete(storage, key[1], key[2]) => IsComplete(storage', key[1], key[2])
        /\ HasValidation(storage, key[1], key[2]) =>
               HasValidation(storage', key[1], key[2])]_vars

\* C8: a validation pass sends queries and creates validation_results entries
\* only for scenarios whose stage-1 result in the retrieved record says
\* detected, never for a scenario that stage 1 did not flag.
C8_OnlyFlaggedValidated ==
    (tp_pc = "returned" /\ tp_edge # NoRecord) =>
        /\ ToSet(tp_queries) \subseteq DetectedAtEdge(tp_edge)
        /\ DOMAIN tp_result.validation_results \subseteq DetectedAtEdge(tp_edge)
        /\ DOMAIN tp_inference \subseteq DetectedAtEdge(tp_edge)

\* A record with one flagged scenario out of six: exactly that one is queried.
C8_Witness ==
    /\ ReturnedSuccess
    /\ DetectedAtEdge(tp_edge) = {"smoke_detection"}
    /\ tp_queries = <<"smoke_detection">>
    /\ DOMAIN tp_result.validation_results = {"smoke_detection"}

\* C9: when the retrieved record has no detected scenarios,
\* detect_true_positives returns success with an empty true_positives list,
\* sends no query to the model, does not call the store's update and leaves
\* the stored files as they were.
C9_NothingDetected ==
    [][(tp_pc = "idle" /\ tp_pc' = "returned" /\ tp_edge' # NoRecord
            /\ Len(tp_edge'.detected_scenarios) = 0) =>
        /\ tp_result'.success
        /\ tp_result'.true_positives = <<>>
        /\ tp_queries' = <<>>
        /\ tp_update' = "not called"
        /\ storage' = storage]_vars

\* A pass over a stored record in which the edge flagged nothing.
C9_Witness ==
    /\ ReturnedSuccess
    /\ Len(tp_edge.detected_scenarios) = 0
    /\ tp_result.true_positives = <<>>
    /\ tp_queries = <<>>
    /\ Len(storage) > 0

-----------------------------------------------------------------------------
(* Properties of the poll scheduler (SpecSched).                           *)

\* C3: under every interleaving of start_scheduler, stop_scheduler and timer
\* ticks, at most one execution of pull_events_from_cloud is active.
C3_OneSweep == ActiveSweeps <= 1

-----------------------------------------------------------------------------
(* Properties of alerting (SpecAlert).                                     *)

\* C11: every alert for a set of true positives, from generate_alert or from
\* the sweep's _generate_alerts, has priority HIGH when the overall confidence
\* of the detection result is greater than 0.8 and MEDIUM otherwise.
C11_PriorityByConfidence ==
    al_pc = "done" =>
        LET expected ==
                IF ConfidenceAbove(al_result.final_decision.confidence, 80)
                THEN "high" ELSE "medium"
        IN  /\ al_alert.alert_generated => Lower(al_alert.priority) = expected
            /\ \A k \in 1..Len(al_sched) : Lower(al_sched[k].priority) = expected

Tagged(result) == "success" \in result.keys /\ result.success \in BOOLEAN

\* The results of process_cctv_video, validate_scenario, detect_true_positives
\* and process_safety_event that the state holds are all tagged.
ResultsTagged ==
    /\ \A r \in outbox : r.success \in BOOLEAN
    /\ ~process_cctv_video("CAMERA_1", T1, <<>>, SweepApis({})).success
    /\ al_pc = "done" =>
        /\ Tagged(al_result)
        /\ Tagged([al_event.result EXCEPT !.keys = al_event.keys])
        /\ \A s \in DOMAIN al_result.validation_results :
               al_result.validation_results[s].success \in BOOLEAN

\* C13 as stated: process_cctv_video, validate_scenario,
\* detect_true_positives, process_safety_event and pull_events_from_cloud
\* each return a result with a success/failure tag for every outcome of the
\* model endpoint and of the store, and let no exception through.
C13_AllTagged ==
    /\ ResultsTagged
    /\ sw_pc = "done" => (~sw_outcome.raised /\ sw_outcome.returned # "None")

\* C13 amended: the four operations that return a value return it tagged,
\* also when their body raised; pull_events_from_cloud returns no value, logs
\* what happened, and lets no exception through either.
C13_TaggedOrLogged ==
    /\ ResultsTagged
    /\ sw_pc = "done" =>
        /\ ~sw_outcome.raised
        /\ sw_outcome.returned = "None"
        /\ sw_outcome.log # ""

\* A KeyError inside detect_true_positives and an AttributeError inside the
\* sweep, both turned into a failure result or a log line.
C13_Witness ==
    /\ al_pc = "done"
    /\ al_result.error = "True positive detection failed"
    /\ ~al_result.success
    /\ ~al_event.result.success
    /\ sw_pc = "done"
    /\ sw_outcome.log = "Error in scheduled event pull"

-----------------------------------------------------------------------------
(* More properties of the poll scheduler (SpecSched).                      *)

\* stop_scheduler has returned, or the scheduler was never started.
Stopped == ~is_running /\ sc_caller = "idle"

\* In this step a background thread enters pull_events_from_cloud.
SweepBegins ==
    \E t \in 1..Len(sc_threads) :
        /\ sc_threads'[t].pc = "pull"
        /\ sc_threads'[t] # sc_threads[t]

\* The threads on _run_scheduler that have not left the loop.
LiveThreads == {t \in 1..Len(sc_threads) : sc_threads[t].pc # "exited"}

\* C14: when stop_scheduler returns on a running scheduler is_running is
\* false, and from then on no sweep begins until start_scheduler is called.
C14_NoSweepAfterStop ==
    [][/\ (sc_caller = "join" /\ sc_caller' = "idle") => ~is_running'
       /\ (Stopped /\ sc_starts' = sc_starts) => ~SweepBegins]_vars

\* C15: start_scheduler on a stopped scheduler runs one sweep to its end in
\* the calling thread before the scheduler is running and before a sweep
\* begins on a background thread; when it returns the scheduler is running
\* with one repeating sweep scheduled and one background loop to run it.
C15_InitialSweepThenPeriodic ==
    [][/\ sc_caller = "initial_pull" => (~is_running /\ ~SweepBegins)
       /\ (sc_caller = "initial_pull" /\ sc_caller' = "idle") =>
            /\ is_running'
            /\ sc_done' = sc_done + 1
            /\ Len(sc_jobs') = 1
            /\ LiveThreads' = {scheduler_thread'}]_vars

\* C16: a scheduler started once, stopped after exactly two intervals
\* elapsed, and whose loop has ended has completed exactly three sweeps, and
\* no two sweeps of it overlapped.
C16_ThreeSweeps ==
    /\ sc_starts = 1 => ActiveSweeps <= 1
    /\ (sc_starts = 1 /\ Stopped /\ sc_ticks = 2 /\ sc_threads # <<>>
            /\ LiveThreads = {}) => sc_done = 3

-----------------------------------------------------------------------------
(* Properties of the sweep over the record store (SpecPoll).               *)

\* The sweep reached the end of its loop over the cameras.
SweepCompleted == sw_outcome.log = "Scheduled pull completed"

\* C17: a sweep obtains from the store the set of cameras with a pending
\* record and runs the validation pass for every camera of that set.
C17_SweepVisitsPending ==
    sw_pc = "done" =>
        /\ ToSet(sw_outcome.cameras) = PendingCameras(storage)
        /\ ToSet(sw_outcome.visited) = PendingCameras(storage)

\* C18: a failure while one camera of a sweep is processed does not abort
\* the sweep: the sweep runs to its end and every other camera with a
\* pending record is still processed.
C18_FailureContained ==
    \A c \in sw_faults \cap PendingCameras(storage) :
        sw_pc = "done" =>
            /\ SweepCompleted
            /\ \A d \in PendingCameras(storage) \ {c} :
                   d \in ToSet(sw_outcome.visited)

\* The store holds the record of `key` and it is not validation_complete.
PendingRecord(key) ==
    \E k \in 1..Len(storage) :
        /\ storage[k].name = FileName(key[1], key[2])
        /\ storage[k].data.status # "validation_complete"

\* A sweep has ended in which no camera's processing failed.
CleanSweep == sw_pc = "done" /\ sw_faults = {}

\* C19: if sweeps in which the model and the store respond keep happening,
\* every stored record that is pending eventually reaches the status
\* validation_complete.
C19_EventuallyValidated ==
    []<>CleanSweep =>
        \A key \in RecordKeys :
            PendingRecord(key) ~> IsComplete(storage, key[1], key[2])

-----------------------------------------------------------------------------
(* The validation engine and records that are already validated.           *)

\* C20: a call of detect_true_positives that retrieved a record which is
\* already validation_complete sends no query to the model for it and does
\* not write the record back.
C20_ValidatedOnce ==
    (tp_pc = "returned" /\ tp_edge # NoRecord
        /\ tp_edge.status = "validation_complete") =>
            /\ tp_queries = <<>>
            /\ tp_update = "not called"

-----------------------------------------------------------------------------
(* Properties of the classifiers and the confidence scores (SpecText).     *)

\* A text was classified whose stage-1 indicator counts are equal.
Stage1Tie ==
    tx_pc = "classified" /\ tx_verdict.counts.positive = tx_verdict.counts.negative

\* C21, as stated: _parse_detection classifies a text with as many positive
\* as negative indicators (none at all included) as true.
C21_TieDetected == Stage1Tie => tx_verdict.detected

\* C21, amended: _parse_detection classifies a text with as many positive as
\* negative indicators (none at all included) as false.
C21_TieNotDetected == Stage1Tie => ~tx_verdict.detected

C21_Witness == Stage1Tie /\ tx_verdict.counts.positive = 2 /\ ~tx_verdict.detected

\* C22: _parse_validation_response returns valid exactly when the count of
\* positive indicators is at least the count of negative ones.
C22_ValidUnlessMoreNegative ==
    tx_pc = "classified" =>
        (tx_verdict.is_valid <=>
            tx_verdict.counts.validation_positive >= tx_verdict.counts.validation_negative)

C22_Witness ==
    /\ tx_pc = "classified"
    /\ tx_verdict.counts.validation_positive = 1
    /\ tx_verdict.counts.validation_negative = 1
    /\ tx_verdict.is_valid

\* Both classifiers gave the second text the verdict of the first, and gave
\* the first text the same verdict again.
SameVerdicts ==
    /\ tx_verdict.variant_detected = tx_verdict.detected
    /\ tx_verdict.variant_is_valid = tx_verdict.is_valid
    /\ tx_verdict.again_detected = tx_verdict.detected
    /\ tx_verdict.again_is_valid = tx_verdict.is_valid

\* C23, as stated: two texts that differ only in letter case or in white
\* space (before, after or between the words) get the same verdict from both
\* classifiers, and so does the same text classified twice.
C23_VariantsAgree == tx_pc = "classified" => SameVerdicts

\* C23, amended: two texts that differ only in letter case or in white space
\* before or after the text get the same verdict from both classifiers, and
\* so does the same text classified twice.
C23_CaseAndEdgeSpaceAgree ==
    (tx_pc = "classified" /\ tx_kind \in CaseKinds \cup EdgeSpaceKinds) => SameVerdicts

C23_Witness ==
    /\ tx_pc = "classified"
    /\ tx_kind = "upper"
    /\ tx_variant # tx_text
    /\ tx_verdict.detected
    /\ tx_verdict.variant_detected

\* validate_scenario returned a successful validation.
Scored == tx_pc = "scored" /\ tx_validation.success

\* The two parts of the confidence, in hundredths, read off the narrative
\* and the model's answer.
EdgePart == IF Len(Strip(tx_edge_response)) > 10 THEN 80 ELSE 50
ValidationPart ==
    IF Lower(Strip(tx_text)) \in {"yes", "no", "true", "false"} THEN 90 ELSE 60

\* C24: the confidence of a successful validation is the average of the edge
\* part and the validation part, hence one of 0.55, 0.70 and 0.85.
C24_ScenarioConfidence ==
    Scored =>
        /\ 2 * tx_validation.confidence = EdgePart + ValidationPart
        /\ tx_validation.confidence \in {55, 70, 85}

C24_Witness ==
    /\ Scored
    /\ Len(tx_edge_response) > 10
    /\ EdgePart = 50
    /\ tx_text # Lower(Strip(tx_text))
    /\ ValidationPart = 90
    /\ tx_validation.confidence = 70

\* The validation calls of tx_results that succeeded, and those among them
\* with a given confidence.
Succeeded == {s \in DOMAIN tx_results : tx_results[s].success}
WithConfidence(c) == {s \in Succeeded : tx_results[s].confidence = c}

\* C25: the overall confidence is the mean of the confidences of the calls
\* that succeeded, 0.0 when none did, and lies between 0 and 1.
C25_OverallConfidence ==
    tx_pc = "averaged" =>
        /\ Succeeded = {} => (tx_overall.sum = 0 /\ tx_overall.count = 1)
        /\ Succeeded # {} =>
            /\ tx_overall.count = Cardinality(Succeeded)
            /\ tx_overall.sum =
                   55 * Cardinality(WithConfidence(55))
                       + 70 * Cardinality(WithConfidence(70))
                       + 85 * Cardinality(WithConfidence(85))
        /\ 0 <= tx_overall.sum
        /\ tx_overall.sum <= 100 * tx_overall.count

C25_Witness ==
    /\ tx_pc = "averaged"
    /\ Cardinality(Succeeded) = 2
    /\ Cardinality(DOMAIN tx_results) = 3
    /\ WithConfidence(55) # {}
    /\ WithConfidence(85) # {}
    /\ tx_overall = [sum |-> 140, count |-> 2]

-----------------------------------------------------------------------------
(* Properties of the store's lookup (SpecRetrieve) and of the results of   *)
(* process_safety_event (SpecAlert).                                       *)

\* The positions of the files that hold a record of the camera.
FilesOf(camera_id) == {k \in 1..Len(storage) : storage[k].data.camera_id = camera_id}

\* C26: retrieve_edge_results(camera_id) without a timestamp returns the
\* record of that camera written last, whatever records of other cameras the
\* store holds.
C26_LatestOfCamera ==
    [][(rt_pc = "idle" /\ rt_pc' = "retrieved" /\ rt_read_ok'
            /\ rt_timestamp' = NoTimestamp /\ FilesOf(rt_camera_id') # {}) =>
                \E k \in FilesOf(rt_camera_id') :
                    /\ \A j \in FilesOf(rt_camera_id') : j <= k
                    /\ rt_record' = storage[k].data]_vars

\* C27: a result of process_safety_event with success = true has the keys
\* true_positives, false_positives and final_decision.
C27_SuccessCarriesDecision ==
    (al_pc = "done" /\ "success" \in al_event.keys /\ al_event.result.success) =>
        {"true_positives", "false_positives", "final_decision"} \subseteq al_event.keys

-----------------------------------------------------------------------------
(* Calls with nothing to validate.                                         *)

\* detect_true_positives has returned and the store holds no record for the
\* camera and timestamp it was called with.
NothingToValidate ==
    /\ tp_pc = "returned"
    /\ tp_edge = NoRecord
    /\ MatchingFiles(storage, tp_result.camera_id, tp_result.timestamp) = {}

\* C28: a call of detect_true_positives that finds no record for the camera
\* reports success, sends no query to the model and does not write to the
\* store.
C28_NoRecordIsNoOp ==
    NothingToValidate =>
        /\ tp_result.success
        /\ tp_queries = <<>>
        /\ tp_update = "not called"

-----------------------------------------------------------------------------
(* Properties of the edge sweep over a clip (SpecClip).                    *)

\* The clip could not be opened, or gave no frame.
Unreadable == vd_clip.kind # "readable" \/ vd_clip.frames = <<>>

\* C29: the edge sweep over a clip that cannot be opened, or gives no frame,
\* returns a failure; no query is sent to the model and no record with
\* scenario results is produced or sent on.
C29_ClipUnreadable ==
    (vd_pc = "done" /\ Unreadable) =>
        /\ ~vd_result.success
        /\ vd_queries = 0
        /\ DOMAIN vd_result.edge_results = {}
        /\ vd_result.detected_scenarios = <<>>
        /\ vd_sent = <<>>

C29_Witness ==
    /\ vd_pc = "done"
    /\ vd_clip.kind = "readable"
    /\ vd_clip.frames = <<>>
    /\ ~vd_result.success

-----------------------------------------------------------------------------
(* The queries of a validation pass (SpecStore).                           *)

\* C30: a validation pass sends exactly one query to the model for every
\* detected scenario of the record, with the supplied image or with the
\* placeholder, whatever the position of the scenario among the detected
\* ones.
C30_OneQueryPerScenario ==
    ReturnedSuccess => tp_queries = tp_edge.detected_scenarios

-----------------------------------------------------------------------------
(* Failures of single validation queries (SpecStore).                      *)

\* Some validation call of the pass that has just returned failed.
SomeValidationFailed ==
    /\ tp_pc = "returned"
    /\ tp_edge # NoRecord
    /\ \E s \in DOMAIN tp_inference : tp_inference[s].error

\* C31: a failed validation query for one detected scenario does not abort
\* the validation of the record: the call returns success, every detected
\* scenario has its validation result, the failed one is a false positive,
\* and every scenario whose own call did not fail was queried and is judged
\* by the model's answer.
C31_ValidationFailureContained ==
    SomeValidationFailed =>
        /\ tp_result.success
        /\ DOMAIN tp_result.validation_results = ToSet(tp_edge.detected_scenarios)
        /\ \A s \in DOMAIN tp_inference :
            LET r == tp_result.validation_results[s]
            IN  IF tp_inference[s].error
                THEN /\ ~r.success
                     /\ s \in ToSet(tp_result.false_positives)
                     /\ s \notin ToSet(tp_result.true_positives)
                ELSE /\ r.success
                     /\ s \in ToSet(tp_queries)
                     /\ r.is_valid = parse_validation_response(tp_inference[s].text)
                     /\ s \in ToSet(tp_result.true_positives) <=> r.is_valid

\* The query of the first detected scenario fails in transport; the second
\* one is still queried and confirmed.
C31_Witness ==
    /\ SomeValidationFailed
    /\ tp_edge.detected_scenarios = <<"smoke_detection", "fire_detection">>
    /\ tp_inference["smoke_detection"] = ApiError(TransportError.text)
    /\ tp_queries = <<"smoke_detection", "fire_detection">>
    /\ tp_result.true_positives = <<"fire_detection">>
    /\ tp_result.false_positives = <<"smoke_detection">>

-----------------------------------------------------------------------------
(* Failed frames of a scenario analysis (SpecEdge).                        *)

\* The frames of the list that encode_image can encode.
Encodable(frames) == {k \in 1..Len(frames) : frames[k] # "bad"}

\* C32: in analyze_frames_for_scenario a frame whose encoding or model query
\* fails is recorded as a failed entry and does not stop the scenario: every
\* later frame that can be encoded is still queried, frame_results has one
\* entry per input frame in input order, and failed frames never count
\* toward detected_frames.
C32_FailedFrameContained ==
    /\ ed_pc = "frames" =>
        /\ Len(ed_frame_results) = ed_i
        /\ ed_queries = Cardinality({k \in Encodable(ed_frames) : k <= ed_i})
    /\ ed_pc = "done" =>
        LET frame_results == ed_result.frame_results
            failed == {k \in 1..Len(frame_results) : ~frame_results[k].success}
        IN  /\ Len(frame_results) = Len(ed_frames)
            /\ \A k \in 1..Len(frame_results) : frame_results[k].frame_number = k
            /\ \A k \in 1..Len(ed_frames) :
                   ed_frames[k] = "bad" =>
                       /\ k \in failed
                       /\ frame_results[k].error = "Failed to encode frame"
            /\ \A k \in failed :
                   /\ frame_results[k].error # ""
                   /\ k \notin PositiveFrames(frame_results)
            /\ ed_queries = Cardinality(Encodable(ed_frames))
            /\ ed_result.detected_frames <= Len(frame_results) - Cardinality(failed)
            /\ ed_result.detected_frames = ed_detected_count

\* The first frame cannot be encoded, the query of the second is refused,
\* and the third is still queried and counted.
C32_Witness ==
    /\ ed_pc = "done"
    /\ ed_frames = <<"bad", "img", "img">>
    /\ ed_result.frame_results[1].error = "Failed to encode frame"
    /\ ed_result.frame_results[2].error = RateLimitError.text
    /\ ed_result.frame_results[3].success
    /\ ed_result.frame_results[3].detected
    /\ ed_queries = 2
    /\ ed_result.detected_frames = 1

-----------------------------------------------------------------------------
(* The scenarios of a sweep (SpecClip).                                    *)

\* C33: a successful edge sweep analyzes each of the six fixed scenarios
\* once, over all frames, so scenario_results has exactly those six keys,
\* and detected_scenarios is the list of the keys whose result has
\* detected = true, in the order of the fixed list.
C33_SixScenariosInOrder ==
    (vd_pc = "done" /\ vd_result.success) =>
        LET Flagged(scenario) == vd_result.edge_results[scenario].detected
        IN  /\ DOMAIN vd_result.edge_results = ToSet(scenarios)
            /\ Cardinality(DOMAIN vd_result.edge_results) = 6
            /\ \A scenario \in ToSet(scenarios) :
                   vd_result.edge_results[scenario].total_frames = Len(vd_clip.frames)
            /\ vd_queries = 6 * Cardinality(Encodable(vd_clip.frames))
            /\ vd_result.detected_scenarios = SelectSeq(scenarios, Flagged)

\* The second and the sixth scenario are flagged and listed in that order.
C33_Witness ==
    /\ vd_pc = "done"
    /\ vd_result.success
    /\ vd_result.detected_scenarios = <<"fire_detection", "unattended_object">>
    /\ ~vd_result.edge_results["smoke_detection"].detected

-----------------------------------------------------------------------------
(* The example of three frames (SpecEdge).                                 *)

\* The three frames of smoke_detection were answered "I see smoke",
\* "no smoke visible" and "smoke detected".
SmokeExample ==
    /\ ed_pc = "done"
    /\ ed_scenario = "smoke_detection"
    /\ Len(ed_result.frame_results) = 3
    /\ \A k \in 1..3 : ed_result.frame_results[k].success
    /\ ResponsesOf(ed_result.frame_results)
           = <<"I see smoke", "no smoke visible", "smoke detected">>

\* C34: for the frame responses "I see smoke", "no smoke visible" and
\* "smoke detected" analyzed for smoke_detection, the scenario result is
\* detected with detected_frames = 2 and total_frames = 3: the middle
\* response, with as many negative as positive indicators, is not counted.
C34_SmokeExample ==
    SmokeExample =>
        /\ ed_result.detected
        /\ ed_result.detected_frames = 2
        /\ ed_result.total_frames = 3
        /\ PositiveFrames(ed_result.frame_results) = {1, 3}
        /\ CountIn(positive_indicators, "no smoke visible")
               = CountIn(negative_indicators, "no smoke visible")

C34_Witness == SmokeExample /\ ~ed_result.frame_results[2].detected

-----------------------------------------------------------------------------
(* The waits of the client (SpecClient).                                   *)

\* The sleeps between the failure of request j - 1 and request j of the
\* current call, j >= 2, in tenths of a second: the sleep of the except
\* clause and the sleep at the head of the next iteration.
WaitBeforeRequest(j) == cl_waits[2 * j - 3] + cl_waits[2 * j - 2]

\* The sleeps of the call are those of the requests made so far, and the
\* sleep of the except clause when the last request failed and is retried.
WaitsLaidOut ==
    cl_requests >= 1 =>
        Len(cl_waits) = 2 * (cl_requests - 1) + (IF cl_pc = "loop" THEN 1 ELSE 0)

\* C35, as stated: the total wait between a failed attempt and the next
\* request is 2.0 * 1.5^attempt seconds, 3.0 s before the second request and
\* 4.5 s before the third, and no wait precedes the first request.
C35_WaitIsBackoff ==
    /\ WaitsLaidOut
    /\ cl_requests >= 2 /\ cl_pc = "done" => WaitBeforeRequest(2) = 30
    /\ cl_requests >= 3 /\ cl_pc = "done" => WaitBeforeRequest(3) = 45

\* C35, amended: the total wait between a failed attempt and the next
\* request is 2.0 s plus 2.0 * 1.5^attempt seconds, 5.0 s before the second
\* request and 6.5 s before the third, and no wait precedes the first
\* request.
C35_WaitIsSleepPlusBackoff ==
    /\ WaitsLaidOut
    /\ cl_requests = 1 /\ cl_pc = "done" => cl_waits = <<>>
    /\ cl_requests >= 2 /\ cl_pc = "done" => WaitBeforeRequest(2) = 50
    /\ cl_requests >= 3 /\ cl_pc = "done" => WaitBeforeRequest(3) = 65

\* Two failed requests and a third one that is answered.
C35_Witness ==
    /\ cl_pc = "done"
    /\ cl_requests = 3
    /\ cl_log[3].kind = "ok"
    /\ cl_waits = <<20, 30, 20, 45>>

-----------------------------------------------------------------------------
(* Stopping during a sweep (SpecSched).                                    *)

\* In this step stop_scheduler clears the flag while a background thread is
\* inside pull_events_from_cloud.
StopDuringSweep == is_running /\ ~is_running' /\ PullingThreads # {}

-----------------------------------------------------------------------------
(* The record written back by a validation pass (SpecStore).               *)

\* In this step detect_true_positives runs and its update of the store
\* succeeds.
WritesBack == tp_pc = "idle" /\ tp_pc' = "returned" /\ tp_update' = "true"

\* The file the step wrote: open(filepath, 'w') makes it the most recent.
Written == storage'[Len(storage')]

\* C37, as stated: the record written back by a validation pass contains
\* final_decision in addition to validation_results and the new status.
C37_DecisionStored ==
    [][WritesBack =>
        /\ {"final_decision", "validation_results", "status"} \subseteq Written.data.keys
        /\ Written.data.status = "validation_complete"]_vars

\* C37, amended: the record written back by a validation pass is the whole
\* stored record with validation_results, the status validation_complete and
\* updated_at set and every other field kept; final_decision is not stored,
\* it is only in the result the pass returns.
C37_ValidationStoredDecisionReturned ==
    [][WritesBack =>
        /\ \E k \in 1..Len(storage) :
            /\ storage[k].name = Written.name
            /\ Written.data =
                   [storage[k].data EXCEPT
                       !.validation_results = tp_result'.validation_results,
                       !.status = "validation_complete",
                       !.keys = EdgeRecordKeys
                                    \cup {"validation_results", "status", "updated_at"}]
            /\ Len(storage') = Len(storage)
            /\ \A j \in 1..Len(storage) :
                   j # k => \E i \in 1..Len(storage') : storage'[i] = storage[j]
        /\ "final_decision" \notin Written.data.keys
        /\ "final_decision" \in tp_result'.keys]_vars

\* A pass has confirmed a violation and written its validation results.
C37_Witness ==
    /\ tp_pc = "returned"
    /\ tp_update = "true"
    /\ tp_result.final_decision.violations_detected
    /\ storage # <<>>
    /\ storage[Len(storage)].data.status = "validation_complete"
    /\ storage[Len(storage)].data.validation_results = tp_result.validation_results
    /\ "final_decision" \notin storage[Len(storage)].data.keys

-----------------------------------------------------------------------------
(* Isolation of the cameras in the local store (SpecStore).                *)

\* C38: records of different cameras are isolated in the local store: a
\* validation pass for camera A, through retrieve_edge_results(A) and
\* update_validation_status(A, ...), never gets a record whose camera_id is
\* another camera's and never modifies a file of another camera, also when
\* A is a prefix of the other camera's id.
C38_CamerasIsolated ==
    [][(tp_pc = "idle" /\ tp_pc' = "returned") =>
        /\ tp_edge' # NoRecord => tp_edge'.camera_id = tp_result'.camera_id
        /\ \A k \in 1..Len(storage) :
               storage[k].data.camera_id # tp_result'.camera_id =>
                   \E i \in 1..Len(storage') : storage'[i] = storage[k]]_vars

-----------------------------------------------------------------------------
(* The jobs registered with `schedule` (SpecSched).                        *)

\* C39: after any sequence of start_scheduler and stop_scheduler calls at
\* most one periodic sweep job is registered, and a stopped scheduler has no
\* job left that could be run.
C39_AtMostOneJob ==
    /\ Len(sc_jobs) <= 1
    /\ Stopped => sc_jobs = <<>>

-----------------------------------------------------------------------------
(* The life of an async analysis job (SpecJobs).                           *)

Terminal == {COMPLETED, FAILED}

\* The changes of status a job may go through.
StatusMoves ==
    {<<PENDING, PROCESSING>>, <<PROCESSING, COMPLETED>>, <<PROCESSING, FAILED>>}

\* C40: every async analysis job moves only along pending -> processing ->
\* completed or failed; once the processing has returned it reaches
\* completed or failed, its status never changes after that, its result is
\* set only in status completed and its error only in status failed.
C40_JobLifecycle ==
    /\ [][/\ \A job_id \in 1..Len(safety_jobs) :
              LET old == safety_jobs[job_id].status
                  new == safety_jobs'[job_id].status
              IN  /\ old # new => <<old, new>> \in StatusMoves
                  /\ old \in Terminal => new = old
          /\ \A new_id \in (Len(safety_jobs) + 1)..Len(safety_jobs') :
                 safety_jobs'[new_id].status = PENDING]_vars
    /\ [](\A job_id \in 1..Len(safety_jobs) :
              /\ safety_jobs[job_id].result # None =>
                     safety_jobs[job_id].status = COMPLETED
              /\ safety_jobs[job_id].error # None =>
                     safety_jobs[job_id].status = FAILED
              /\ safety_jobs[job_id].pc = "ended" =>
                     safety_jobs[job_id].status \in Terminal)
    /\ \A job_id \in 1..MaxJobs :
           (job_id <= Len(safety_jobs) /\ safety_jobs[job_id].pc = "called")
               ~> (job_id <= Len(safety_jobs)
                       /\ safety_jobs[job_id].status \in Terminal)

\* One job completed with a result that reports a failure, another failed
\* with the error of the exception.
C40_Witness ==
    /\ Len(safety_jobs) = 2
    /\ safety_jobs[1].status = COMPLETED
    /\ safety_jobs[1].result = FailedResult
    /\ safety_jobs[1].error = None
    /\ safety_jobs[2].status = FAILED
    /\ safety_jobs[2].error # None
    /\ safety_jobs[2].result = None

=============================================================================
